---- MODULE Spec2Model ----
(***************************************************************************)
(* tagnote (src/tagnote/tag.py): timestamped Notes organised under Labels. *)
(* A Label is a file listing its members, one name per line; the           *)
(* membership graph may be cyclic.  This module models the tag classes,    *)
(* the file-backed membership store, the AllTagsFrom traversal,            *)
(* all_unique_notes and the Add/Remove/Import commands.                    *)
(***************************************************************************)
EXTENDS Integers, Sequences, FiniteSets, TLC

VARIABLES
    notes_directory,  \* the notes directory: [files, content]
    last,             \* the last call made on the directory and its outcome
    iterator,         \* the AllTagsFrom object being enumerated
    roots,            \* all_unique_notes: the roots still to traverse
    notes,            \* all_unique_notes: the local set "notes"
    unique,           \* all_unique_notes: "idle", "running", "returned" or "raised"
    name,             \* tag_of: the name being classified (a sequence of characters)
    classified,       \* tag_of: "" before the call, then its outcome
    arguments,        \* the arguments of a call of a function of the module
    result            \* that call's outcome; NoResult before the call

vars ==
    <<notes_directory, last, iterator, roots, notes, unique, name, classified,
      arguments, result>>

\* No call of a function is being evaluated.
NoArguments == [op |-> "none"]

NoResult == [op |-> "none", out |-> "none"]

------------------------------------------------------------------------------
(* Characters and names.  A name is a sequence of one-character strings.    *)

Digits == {"0", "1", "2", "3", "4", "5", "6", "7", "8", "9"}

Letters ==
    {"a", "b", "c", "d", "e", "f", "g", "h", "i", "j", "k", "l", "m",
     "n", "o", "p", "q", "r", "s", "t", "u", "v", "w", "x", "y", "z",
     "A", "B", "T", "X", "Z"}

\* The code point of the characters that occur in the modelled names
\* (str comparison in Python is by code point).
CodePoint(c) ==
    CASE c = "\n" -> 10
      [] c = " " -> 32
      [] c = "-" -> 45
      [] c = "." -> 46
      [] c = "0" -> 48
      [] c = "1" -> 49
      [] c = "2" -> 50
      [] c = "8" -> 56
      [] c = "T" -> 84
      [] c = "_" -> 95
      [] c = "a" -> 97
      [] c = "d" -> 100
      [] c = "o" -> 111
      [] c = "t" -> 116
      [] c = "x" -> 120

\* x < y on str: the first differing character decides, a proper prefix is less.
RECURSIVE StrLess(_, _)
StrLess(x, y) ==
    IF y = <<>> THEN FALSE
    ELSE IF x = <<>> THEN TRUE
    ELSE IF Head(x) = Head(y) THEN StrLess(Tail(x), Tail(y))
    ELSE CodePoint(Head(x)) < CodePoint(Head(y))

\* One element of a compiled pattern against one character: "\\d" is a digit,
\* "\\w-" is the class [\w-], "." is any character but a newline, anything
\* else is that literal character.
ElementMatches(e, c) ==
    CASE e = "\\d" -> c \in Digits
      [] e = "\\w-" -> c \in Digits \cup Letters \cup {"_", "-"}
      [] e = "." -> c # "\n"
      [] OTHER -> c = e

\* "$" matches at the end of the string and just before a newline that ends it.
AtDollar(s, i) ==
    \/ i = Len(s) + 1
    \/ i = Len(s) /\ s[i] = "\n"

\* Note.PATTERN, ^\d{4}-\d{2}-\d{2}_\d{2}-\d{2}-\d{2}.txt$, element by element.
Note_PATTERN ==
    << "\\d", "\\d", "\\d", "\\d", "-", "\\d", "\\d", "-", "\\d", "\\d", "_",
       "\\d", "\\d", "-", "\\d", "\\d", "-", "\\d", "\\d", ".", "t", "x", "t" >>

\* Note.match(name): Note.PATTERN.match(name)
Note_match(s) ==
    /\ Len(s) >= Len(Note_PATTERN)
    /\ \A i \in 1..Len(Note_PATTERN) : ElementMatches(Note_PATTERN[i], s[i])
    /\ AtDollar(s, Len(Note_PATTERN) + 1)

\* Label.match(name): Label.PATTERN.match(name), the pattern being ^[\w-]+$
Label_match(s) ==
    \E n \in 1..Len(s) :
        /\ \A i \in 1..n : ElementMatches("\\w-", s[i])
        /\ AtDollar(s, n + 1)

\* match of the class named by type_
match(type_, s) ==
    IF type_ = "Note" THEN Note_match(s) ELSE Label_match(s)

TAG_TYPES == <<"Note", "Label">>

\* tag_of with the variants tried in the order of "types": the first variant
\* whose constructor does not raise BadName, else BadName.
RECURSIVE tag_of_in(_, _)
tag_of_in(types, value) ==
    IF types = <<>> THEN "BadName"
    ELSE IF match(Head(types), value) THEN Head(types)
    ELSE tag_of_in(Tail(types), value)

tag_of(value) == tag_of_in(TAG_TYPES, value)

------------------------------------------------------------------------------
(* The tags of the model.  A tag is identified by its index in NameOf; its  *)
(* type and its place in the order of tags are computed from its name.      *)

NameOf ==
    << <<"t", "o", "d", "o">>,
       <<"2", "0", "1", "8", "-", "1", "0", "-", "1", "0", "_",
         "1", "0", "-", "1", "0", "-", "1", "0", ".", "t", "x", "t">>,
       <<"a">>,
       <<"2", "0", "1", "8", "-", "1", "0", "-", "1", "0", "_",
         "1", "1", "-", "1", "0", "-", "1", "0", ".", "t", "x", "t">>,
       <<"1">>,
       <<"2", "0", "1", "8", "-", "0", "0", "-", "1", "0", "_",
         "1", "0", "-", "1", "0", "-", "1", "0", ".", "t", "x", "t">> >>

Tags == DOMAIN NameOf

\* The class tag_of gives each name: "Note" or "Label".
TypeOf == [t \in Tags |-> tag_of(NameOf[t])]

Notes == {t \in Tags : TypeOf[t] = "Note"}

Labels == {t \in Tags : TypeOf[t] = "Label"}

\* The order of the names, computed once.
NameLess == [x \in Tags |-> [y \in Tags |-> StrLess(NameOf[x], NameOf[y])]]

\* Tag.__lt__: tags compare by name.
Tag_lt(x, y) == NameLess[x][y]

\* The tags each specification works with.
StoreTags == {1, 2, 3}

TraverseTags == {1, 2, 3, 5}

UniqueTags == {1, 2, 3, 4}

\* isinstance(instance, type_) for the types of valid_tag_instance; 
\* tag_type "None" stands for no filter (all of TAG_TYPES).
valid_tag_instance(instance, tag_type) ==
    IF tag_type = "None"
    THEN \E i \in 1..Len(TAG_TYPES) : TypeOf[instance] = TAG_TYPES[i]
    ELSE TypeOf[instance] = tag_type

------------------------------------------------------------------------------
(* The notes directory and the Tag methods.  A directory d is a record:     *)
(* d.files, the tags whose file exists, and d.content[t], the lines of t's  *)
(* file read as tags (the member list of a Label).                          *)

EmptyDirectory == [files |-> {}, content |-> [t \in Tags |-> <<>>]]

\* Tag.exists
exists(d, self) == self \in d.files

\* Note.not_exists_error / Label.not_exists_error: the kind of the TagError
not_exists_error(self) ==
    IF TypeOf[self] = "Note" THEN "NoteNotExists" ELSE "LabelNotExists"

\* The first line whose tag has no file, 0 when there is none.
RECURSIVE FirstMissing(_, _, _)
FirstMissing(d, lines, i) ==
    IF i > Len(lines) THEN 0
    ELSE IF ~exists(d, lines[i]) THEN i
    ELSE FirstMissing(d, lines, i + 1)

\* A Label.members that leaves out the members without a file.
Label_members_skip_missing(d, self) ==
    IF ~exists(d, self)
    THEN [items |-> <<>>, raised |-> not_exists_error(self), tag |-> self]
    ELSE [items |-> SelectSeq(d.content[self], LAMBDA member : exists(d, member)),
          raised |-> "none", tag |-> 0]

\* Label.members: check_exists, then a generator over the lines of the file
\* that raises at the first member whose file is absent.  items are the
\* members produced before that; raised is "none" or the error's kind, tag
\* the tag the error is about.
Label_members(d, self) ==
    IF ~exists(d, self)
    THEN [items |-> <<>>, raised |-> not_exists_error(self), tag |-> self]
    ELSE LET lines == d.content[self]
             k == FirstMissing(d, lines, 1)
         IN  IF k = 0
             THEN [items |-> lines, raised |-> "none", tag |-> 0]
             ELSE [items |-> SubSeq(lines, 1, k - 1),
                   raised |-> not_exists_error(lines[k]), tag |-> lines[k]]

\* Note.members: check_exists, then nothing.
Note_members(d, self) ==
    IF ~exists(d, self)
    THEN [items |-> <<>>, raised |-> not_exists_error(self), tag |-> self]
    ELSE [items |-> <<>>, raised |-> "none", tag |-> 0]

members(d, self) ==
    IF TypeOf[self] = "Note" THEN Note_members(d, self) ELSE Label_members(d, self)

Range(s) == {s[i] : i \in 1..Len(s)}

\* list(set(...)) followed by list.sort(): the tags of S in ascending order.
RECURSIVE sort(_)
sort(S) ==
    IF S = {} THEN <<>>
    ELSE LET least == CHOOSE x \in S : \A y \in S \ {x} : Tag_lt(x, y)
         IN  <<least>> \o sort(S \ {least})

\* bisect.bisect_left(a, x) with lo and hi; indexes count from 0.
RECURSIVE bisect_left_in(_, _, _, _)
bisect_left_in(a, x, lo, hi) ==
    IF lo < hi
    THEN LET mid == (lo + hi) \div 2
         IN  IF Tag_lt(a[mid + 1], x)
             THEN bisect_left_in(a, x, mid + 1, hi)
             ELSE bisect_left_in(a, x, lo, mid)
    ELSE lo

\* bisect.bisect_right in place of bisect_left: the index after the entries
\* equal to x.
RECURSIVE bisect_right_in(_, _, _, _)
bisect_right_in(a, x, lo, hi) ==
    IF lo < hi
    THEN LET mid == (lo + hi) \div 2
         IN  IF Tag_lt(x, a[mid + 1])
             THEN bisect_right_in(a, x, lo, mid)
             ELSE bisect_right_in(a, x, mid + 1, hi)
    ELSE lo

bisect_right(a, x) == bisect_right_in(a, x, 0, Len(a))

bisect_left(a, x) == bisect_left_in(a, x, 0, Len(a))

\* list.append(x) in place of list.insert(index, x)
insert_append(a, index, x) == Append(a, x)

\* list.insert(index, x), index counting from 0
insert(a, index, x) ==
    SubSeq(a, 1, index) \o <<x>> \o SubSeq(a, index + 1, Len(a))

\* A list.remove(x) that leaves the list as it is.
remove_nothing(a, x) == a

\* list.remove(x): the list without the first occurrence of x
remove(a, x) ==
    LET i == CHOOSE j \in 1..Len(a) : a[j] = x /\ \A k \in 1..(j - 1) : a[k] # x
    IN  SubSeq(a, 1, i - 1) \o SubSeq(a, i + 1, Len(a))

\* Label.write_members: open(path, "w") and one line per member.
write_members(d, self, mems) ==
    [files |-> d.files \cup {self}, content |-> [d.content EXCEPT ![self] = mems]]

\* A Note.create that touches the file like Label.create does.
Note_create_touch(d, self) ==
    IF exists(d, self)
    THEN [d |-> d, out |-> "False"]
    ELSE [d |-> [files |-> d.files \cup {self}, content |-> d.content],
          out |-> "True"]

\* Note.create: check_exists, then False.
Note_create(d, self) ==
    IF ~exists(d, self)
    THEN [d |-> d, out |-> not_exists_error(self)]
    ELSE [d |-> d, out |-> "False"]

\* touch() with its default exist_ok=True: never FileExistsError.
Label_create_exist_ok(d, self) ==
    [d |-> [files |-> d.files \cup {self}, content |-> d.content], out |-> "True"]

\* Label.create: touch(exist_ok=False); False on FileExistsError.
Label_create(d, self) ==
    IF exists(d, self)
    THEN [d |-> d, out |-> "False"]
    ELSE [d |-> [files |-> d.files \cup {self},
                 content |-> [d.content EXCEPT ![self] = <<>>]],
          out |-> "True"]

create(d, self) ==
    IF TypeOf[self] = "Note" THEN Note_create(d, self) ELSE Label_create(d, self)

\* A Label.add_member that writes the members it has read when the
\* generator raises part way.
Label_add_member_truncating(d, self, tag) ==
    LET m == Label_members(d, self)
    IN  IF ~exists(d, self) THEN [d |-> d, out |-> m.raised]
        ELSE IF m.raised # "none"
        THEN [d |-> write_members(d, self, m.items), out |-> m.raised]
        ELSE [d |-> write_members(d, self, sort(Range(m.items) \cup {tag})),
              out |-> IF tag \in Range(m.items) THEN "False" ELSE "True"]

\* Label.add_member
Label_add_member(d, self, tag) ==
    LET m == Label_members(d, self)
    IN  IF m.raised # "none"
        THEN [d |-> d, out |-> m.raised]
        ELSE LET mems == sort(Range(m.items))
                 add_index == bisect_left(mems, tag)
             IN  IF add_index >= Len(mems) \/ mems[add_index + 1] # tag
                 THEN [d |-> write_members(d, self, insert(mems, add_index, tag)),
                       out |-> "True"]
                 ELSE [d |-> write_members(d, self, mems), out |-> "False"]

\* Label.remove_member
Label_remove_member(d, self, tag) ==
    LET m == Label_members(d, self)
    IN  IF m.raised # "none"
        THEN [d |-> d, out |-> m.raised]
        ELSE LET mems == sort(Range(m.items))
             IN  IF tag \in Range(mems)
                 THEN [d |-> write_members(d, self, remove(mems, tag)),
                       out |-> "True"]
                 ELSE [d |-> write_members(d, self, mems), out |-> "False"]

\* A Note.add_member that lists the tag in the Note's file, as a Label does.
Note_add_member_write(d, self, tag) == Label_add_member(d, self, tag)

\* Note.add_member and Note.remove_member raise UnsupportedOperation.
Note_add_member(d, self, tag) == [d |-> d, out |-> "UnsupportedOperation"]

Note_remove_member(d, self, tag) == [d |-> d, out |-> "UnsupportedOperation"]

add_member(d, self, tag) ==
    IF TypeOf[self] = "Note"
    THEN Note_add_member(d, self, tag)
    ELSE Label_add_member(d, self, tag)

remove_member(d, self, tag) ==
    IF TypeOf[self] = "Note"
    THEN Note_remove_member(d, self, tag)
    ELSE Label_remove_member(d, self, tag)

------------------------------------------------------------------------------
(* Tag.categories and the commands Add, Remove and Import.                  *)

\* The sequences that list each element of S once: the orders in which
\* scandir, or the iteration of a Python set, may produce S.
Orders(S) ==
    {s \in [1..Cardinality(S) -> S] : \A i, j \in 1..Cardinality(S) : s[i] = s[j] => i = j}

\* "tag in self.members()": the test of Tag.categories with its two tags
\* exchanged.
is_member_exchanged(d, self, tag) ==
    LET m == members(d, self)
    IN  IF tag \in Range(m.items) THEN "True"
        ELSE IF m.raised # "none" THEN m.raised
        ELSE "False"

\* "self in tag.members()": the generator is read up to self; it raises when
\* it meets a member without a file before that.  "True", "False" or the
\* error's kind.
is_member(d, self, tag) ==
    LET m == members(d, tag)
    IN  IF self \in Range(m.items) THEN "True"
        ELSE IF m.raised # "none" THEN m.raised
        ELSE "False"

\* The generator of Tag.categories read to its end over the tags "scan" of
\* all_tags, in that order.
RECURSIVE categories_in(_, _, _)
categories_in(d, self, scan) ==
    IF scan = <<>> THEN [items |-> <<>>, raised |-> "none"]
    ELSE LET is == is_member(d, self, Head(scan))
             rest == categories_in(d, self, Tail(scan))
         IN  IF is = "True"
             THEN [items |-> <<Head(scan)>> \o rest.items, raised |-> rest.raised]
             ELSE IF is = "False" THEN rest
             ELSE [items |-> <<>>, raised |-> is]

\* Tag.categories: check_exists, then the tags of the directory that have
\* self among their members.
categories(d, self, scan) ==
    IF ~exists(d, self)
    THEN [items |-> <<>>, raised |-> not_exists_error(self)]
    ELSE categories_in(d, self, scan)

\* OrderedDict.setdefault for each key of "keys", in order: the keys of the
\* dictionary afterwards.
RECURSIVE setdefault_all(_, _)
setdefault_all(dict, keys) ==
    IF keys = <<>> THEN dict
    ELSE setdefault_all(
             IF Head(keys) \in Range(dict) THEN dict ELSE Append(dict, Head(keys)),
             Tail(keys))

\* A loop of Add.run that creates the tag and none of its categories.
create_first(d, tags, new_tags) ==
    LET r == create(d, Head(tags))
    IN  IF r.out \in {"True", "False"}
        THEN [d |-> r.d, out |-> "returned",
              new_tags |-> IF r.out = "True" THEN <<Head(tags)>> ELSE <<>>]
        ELSE [d |-> r.d, out |-> r.out, new_tags |-> <<>>]

\* Add.run, the loop "for new_tag in chain([tag], to_add.keys())": create
\* each, and append to new_tags those that were created; the first that
\* raises ends the command.
RECURSIVE create_all(_, _, _)
create_all(d, tags, new_tags) ==
    IF tags = <<>> THEN [d |-> d, out |-> "returned", new_tags |-> new_tags]
    ELSE LET r == create(d, Head(tags))
         IN  IF r.out \in {"True", "False"}
             THEN create_all(r.d, Tail(tags),
                             IF r.out = "True"
                             THEN Append(new_tags, Head(tags)) ELSE new_tags)
             ELSE [d |-> r.d, out |-> r.out, new_tags |-> <<>>]

\* Add.run, the loop "for category in to_add.keys(): category.add_member(tag)"
RECURSIVE add_member_all(_, _, _)
add_member_all(d, cats, tag) ==
    IF cats = <<>> THEN [d |-> d, out |-> "returned"]
    ELSE LET r == add_member(d, Head(cats), tag)
         IN  IF r.out \in {"True", "False"}
             THEN add_member_all(r.d, Tail(cats), tag)
             ELSE [d |-> r.d, out |-> r.out]

\* Add.run, after the files are created: the members are added and
\* iter(new_tags) is returned.
add_created(created, to_add, tag) ==
    IF created.out # "returned" THEN created
    ELSE [new_tags |-> IF add_member_all(created.d, to_add, tag).out
                              = "returned"
                       THEN created.new_tags ELSE <<>>]
             @@ add_member_all(created.d, to_add, tag)

\* Add.run.  prototype 0 stands for no --prototype; scan is the order in
\* which all_tags lists the directory.  new_tags are the tags of the
\* iterator returned.
Add_run(d, tag, cats, prototype, scan) ==
    LET copied == IF prototype = 0
                  THEN [items |-> <<>>, raised |-> "none"]
                  ELSE categories(d, prototype, scan)
    IN  IF copied.raised # "none"
        THEN [d |-> d, out |-> copied.raised, new_tags |-> <<>>]
        ELSE IF \E i \in 1..Len(cats) : cats[i] = tag \/ TypeOf[cats[i]] # "Label"
        THEN [d |-> d, out |-> "UnsupportedOperation", new_tags |-> <<>>]
        ELSE LET to_add == setdefault_all(copied.items, cats)
             IN  add_created(create_all(d, <<tag>> \o to_add, <<>>),
                             to_add, tag)

\* Remove.run, the loop "for category in to_remove: category.remove_member(tag)"
RECURSIVE remove_member_all(_, _, _)
remove_member_all(d, cats, tag) ==
    IF cats = <<>> THEN [d |-> d, out |-> "returned"]
    ELSE LET r == remove_member(d, Head(cats), tag)
         IN  IF r.out \in {"True", "False"}
             THEN remove_member_all(r.d, Tail(cats), tag)
             ELSE [d |-> r.d, out |-> r.out]

\* Remove.run, the checks of the loop "for category_name in set(categories)":
\* the kind of the first error, "none" without one.
RECURSIVE check_categories(_, _)
check_categories(d, cats) ==
    IF cats = <<>> THEN "none"
    ELSE IF TypeOf[Head(cats)] # "Label" THEN "UnsupportedOperation"
    ELSE IF ~exists(d, Head(cats)) THEN not_exists_error(Head(cats))
    ELSE check_categories(d, Tail(cats))

\* any(iterable) of a generator of tags: true at its first item; the
\* generator's error when it raises before producing one.
any(gen) ==
    IF Len(gen.items) > 0 THEN "True"
    ELSE IF gen.raised # "none" THEN gen.raised
    ELSE "False"

\* A Remove.run that, without categories, unlinks the file of an existing
\* tag without looking at its members and categories.
Remove_run_unchecked(d, tag, cats, scan) ==
    IF cats # <<>>
    THEN LET bad == check_categories(d, cats)
         IN  IF bad # "none"
             THEN [d |-> d, out |-> bad]
             ELSE remove_member_all(d, cats, tag)
    ELSE [d |-> [files |-> d.files \ {tag},
                 content |-> [d.content EXCEPT ![tag] = <<>>]],
          out |-> "returned"]

\* Remove.run.  cats is set(arguments.categories) in the order the set is
\* iterated; scan is the order in which all_tags lists the directory.
Remove_run(d, tag, cats, scan) ==
    IF cats # <<>>
    THEN LET bad == check_categories(d, cats)
         IN  IF bad # "none"
             THEN [d |-> d, out |-> bad]
             ELSE remove_member_all(d, cats, tag)
    ELSE IF ~exists(d, tag)
    THEN [d |-> d, out |-> "returned"]
    ELSE LET has_members == any(members(d, tag))
             has_categories == IF has_members = "False"
                               THEN any(categories(d, tag, scan))
                               ELSE has_members
         IN  IF has_categories = "True"
             THEN [d |-> d, out |-> "ExistingMappings"]
             ELSE IF has_categories # "False"
             THEN [d |-> d, out |-> has_categories]
             ELSE [d |-> [files |-> d.files \ {tag},
                          content |-> [d.content EXCEPT ![tag] = <<>>]],
                   out |-> "returned"]

\* Import.run.  Each path is the Note that Note.from_timestamp gives the
\* file's modification time, or 0 for a path that does not exist.
RECURSIVE Import_run(_, _)
Import_run(d, paths) ==
    IF paths = <<>> THEN [d |-> d, out |-> "returned"]
    ELSE IF Head(paths) = 0 THEN [d |-> d, out |-> "ImportFileNotExists"]
    ELSE IF exists(d, Head(paths)) THEN [d |-> d, out |-> "NoteExists"]
    ELSE Import_run([files |-> d.files \cup {Head(paths)}, content |-> d.content],
                    Tail(paths))

------------------------------------------------------------------------------
(* Spec: calls on the notes directory, one after the other, from an empty   *)
(* directory.                                                               *)

MaxCategories == 2

MaxImport == 2

\* The sequences over S of length at most n.
SeqsUpTo(S, n) == UNION {[1..k -> S] : k \in 0..n}

Call(op, self, arg, cats, prototype, out) ==
    [op |-> op, self |-> self, arg |-> arg, categories |-> cats,
     prototype |-> prototype, out |-> out, items |-> <<>>]

\* A call that gives an iterator, read to its end with list(): items are
\* the tags it produced, out is "returned" or the kind of the error raised.
Listing(op, self, gen) ==
    [Call(op, self, 0, <<>>, 0,
          IF gen.raised = "none" THEN "returned" ELSE gen.raised)
         EXCEPT !.items = gen.items]

IdleIterator ==
    [category |-> 0, tag_type |-> "None", visited |-> {}, remaining |-> <<>>,
     returned |-> <<>>, status |-> "idle", raised |-> "none", tag |-> 0]

IdleUnique == [status |-> "idle", root |-> 0]

Init ==
    /\ notes_directory = EmptyDirectory
    /\ last = Call("none", 0, 0, <<>>, 0, "none")
    /\ iterator = IdleIterator
    /\ roots = <<>>
    /\ notes = {}
    /\ unique = IdleUnique
    /\ name = <<>>
    /\ classified = ""
    /\ arguments = NoArguments
    /\ result = NoResult

\* tag.create()
Create(self) ==
    LET r == create(notes_directory, self)
    IN  /\ notes_directory' = r.d
        /\ last' = Call("create", self, 0, <<>>, 0, r.out)
        /\ UNCHANGED <<iterator, roots, notes, unique, name, classified,
                   arguments, result>>

\* self.add_member(tag)
AddMember(self, tag) ==
    LET r == add_member(notes_directory, self, tag)
    IN  /\ notes_directory' = r.d
        /\ last' = Call("add_member", self, tag, <<>>, 0, r.out)
        /\ UNCHANGED <<iterator, roots, notes, unique, name, classified,
                   arguments, result>>

\* self.remove_member(tag)
RemoveMember(self, tag) ==
    LET r == remove_member(notes_directory, self, tag)
    IN  /\ notes_directory' = r.d
        /\ last' = Call("remove_member", self, tag, <<>>, 0, r.out)
        /\ UNCHANGED <<iterator, roots, notes, unique, name, classified,
                   arguments, result>>

\* list(self.members())
Members(self) ==
    /\ last' = Listing("members", self, members(notes_directory, self))
    /\ UNCHANGED <<notes_directory, iterator, roots, notes, unique, name,
                   classified,
                   arguments, result>>

\* list(self.categories()), all_tags listing the directory in the order
\* scan.
Categories(self, scan) ==
    /\ last' = Listing("categories", self,
                       categories(notes_directory, self, scan))
    /\ UNCHANGED <<notes_directory, iterator, roots, notes, unique, name,
                   classified,
                   arguments, result>>

\* run(["add", ...]): one run of the program.  all_tags is read, in the
\* order scan, only with a prototype.
Add(tag, cats, prototype, scan) ==
    LET r == Add_run(notes_directory, tag, cats, prototype, scan)
    IN  /\ last.op = "none"
        /\ prototype = 0 => scan = sort(notes_directory.files)
        /\ notes_directory' = r.d
        /\ last' = [Call("Add", tag, 0, cats, prototype, r.out)
                        EXCEPT !.items = r.new_tags]
        /\ UNCHANGED <<iterator, roots, notes, unique, name, classified,
                   arguments, result>>

\* run(["remove", ...]): one run of the program.  The categories are visited
\* in the order "order" of their set; all_tags is read, in the order scan,
\* only without categories.
Remove(tag, cats, scan) ==
    \E order \in Orders(Range(cats)) :
        LET r == Remove_run(notes_directory, tag, order, scan)
        IN  /\ last.op = "none"
            /\ cats # <<>> => scan = sort(notes_directory.files)
            /\ notes_directory' = r.d
            /\ last' = Call("Remove", tag, 0, cats, 0, r.out)
            /\ UNCHANGED <<iterator, roots, notes, unique, name, classified,
                   arguments, result>>

\* run(["import", ...]): one run of the program.
Import(paths) ==
    LET r == Import_run(notes_directory, paths)
    IN  /\ last.op = "none"
        /\ notes_directory' = r.d
        /\ last' = Call("Import", 0, 0, paths, 0, r.out)
        /\ UNCHANGED <<iterator, roots, notes, unique, name, classified,
                   arguments, result>>

\* The process that made the last call ends; the directory stays as it is.
Exit ==
    /\ last.op # "none"
    /\ last' = Call("none", 0, 0, <<>>, 0, "none")
    /\ UNCHANGED <<notes_directory, iterator, roots, notes, unique, name, classified,
                   arguments, result>>

Next ==
    \/ \E self \in StoreTags : Create(self)
    \/ \E self, tag \in StoreTags : AddMember(self, tag)
    \/ \E self, tag \in StoreTags : RemoveMember(self, tag)
    \/ \E self \in StoreTags : Members(self)
    \/ \E self \in StoreTags, scan \in Orders(notes_directory.files) :
          Categories(self, scan)
    \/ \E scan \in Orders(notes_directory.files) :
          \E tag \in StoreTags, cats \in SeqsUpTo(StoreTags, MaxCategories),
             prototype \in StoreTags \cup {0} : Add(tag, cats, prototype, scan)
    \/ \E scan \in Orders(notes_directory.files) :
          \E tag \in StoreTags, cats \in SeqsUpTo(StoreTags, MaxCategories) :
             Remove(tag, cats, scan)
    \/ \E paths \in SeqsUpTo((Notes \cap StoreTags) \cup {0}, MaxImport) \ {<<>>} :
          Import(paths)
    \/ Exit

Spec == Init /\ [][Next]_vars

------------------------------------------------------------------------------
(* AllTagsFrom.  An iterator is a record: category and tag_type as given,   *)
(* visited, remaining (the keys of the OrderedDict, oldest first), returned *)
(* (the tags __next__ has returned so far), status ("active", "stopped"     *)
(* after StopIteration, "raised" after an error), and the error's kind and  *)
(* tag.                                                                     *)

\* AllTagsFrom.__init__
AllTagsFrom_init(category, tag_type) ==
    [category |-> category, tag_type |-> tag_type, visited |-> {},
     remaining |-> <<category>>, returned |-> <<>>, status |-> "active",
     raised |-> "none", tag |-> 0]

\* The loop over the members without its test "member not in self.visited".
enqueue_unchecked(remaining, items, visited) == setdefault_all(remaining, items)

\* The loop over the members with a tag that is already pending moved to
\* the end of the queue.
enqueue_move_to_end(remaining, items, visited) ==
    LET fresh == SelectSeq(items, LAMBDA member : member \notin visited)
    IN  setdefault_all(
            SelectSeq(remaining, LAMBDA t : t \notin Range(fresh)), fresh)

\* "for member in ...: if member not in self.visited:
\*      self.remaining.setdefault(member)"
enqueue(remaining, items, visited) ==
    setdefault_all(remaining, SelectSeq(items, LAMBDA member : member \notin visited))

\* One pass of the loop with the type test before the members are read: a
\* tag the filter rejects is dropped unexplored.
iteration_filter_first(d, it) ==
    LET current_tag == Head(it.remaining)
        visited == it.visited \cup {current_tag}
        mems == members(d, current_tag)
    IN  IF ~valid_tag_instance(current_tag, it.tag_type)
        THEN [it EXCEPT !.visited = visited, !.remaining = Tail(it.remaining)]
        ELSE IF mems.raised # "none"
        THEN [it EXCEPT !.visited = visited,
                        !.remaining = enqueue(Tail(it.remaining), mems.items, visited),
                        !.status = "raised", !.raised = mems.raised, !.tag = mems.tag]
        ELSE [it EXCEPT !.visited = visited,
                        !.remaining = enqueue(Tail(it.remaining), mems.items, visited),
                        !.returned = Append(it.returned, current_tag)]

\* One pass of the loop without "self.visited.add(current_tag)".
iteration_unvisited(d, it) ==
    LET current_tag == Head(it.remaining)
        mems == members(d, current_tag)
        remaining == enqueue(Tail(it.remaining), mems.items, it.visited)
    IN  IF mems.raised # "none"
        THEN [it EXCEPT !.remaining = remaining, !.status = "raised",
                        !.raised = mems.raised, !.tag = mems.tag]
        ELSE IF valid_tag_instance(current_tag, it.tag_type)
        THEN [it EXCEPT !.remaining = remaining,
                        !.returned = Append(it.returned, current_tag)]
        ELSE [it EXCEPT !.remaining = remaining]

\* AllTagsFrom.__next__, one pass of "while self.remaining": pop the oldest
\* tag, mark it visited, enqueue its members (the generator may raise part
\* way), and return it when it passes the type filter.
iteration(d, it) ==
    LET current_tag == Head(it.remaining)
        visited == it.visited \cup {current_tag}
        mems == members(d, current_tag)
        remaining == enqueue(Tail(it.remaining), mems.items, visited)
    IN  IF mems.raised # "none"
        THEN [it EXCEPT !.visited = visited, !.remaining = remaining,
                        !.status = "raised", !.raised = mems.raised, !.tag = mems.tag]
        ELSE IF valid_tag_instance(current_tag, it.tag_type)
        THEN [it EXCEPT !.visited = visited, !.remaining = remaining,
                        !.returned = Append(it.returned, current_tag)]
        ELSE [it EXCEPT !.visited = visited, !.remaining = remaining]

\* AllTagsFrom.__next__, the whole call: passes of the loop until one
\* returns a tag or raises, StopIteration when nothing remains.
RECURSIVE AllTagsFrom_next(_, _)
AllTagsFrom_next(d, it) ==
    IF it.remaining = <<>> THEN [it EXCEPT !.status = "stopped"]
    ELSE LET n == iteration(d, it)
         IN  IF n.status = "raised" \/ Len(n.returned) > Len(it.returned)
             THEN n
             ELSE AllTagsFrom_next(d, n)

\* list(it): __next__ until StopIteration or an error.
RECURSIVE list_AllTagsFrom(_, _)
list_AllTagsFrom(d, it) ==
    IF it.status # "active" THEN it
    ELSE list_AllTagsFrom(d, AllTagsFrom_next(d, it))

------------------------------------------------------------------------------
(* SpecTraverse: one AllTagsFrom over a directory that does not change.     *)

MaxMembers == 2

MaxReturned == 5

\* The member lists that add_member writes: up to n tags of U, ascending.
MemberLists(U, n) == {sort(S) : S \in {T \in SUBSET U : Cardinality(T) <= n}}

\* The directories over the tags U whose Labels list up to n members each.
Directories(U, n) ==
    UNION {
        {[files |-> F,
          content |-> [t \in Tags |-> IF t \in F \cap Labels THEN c[t] ELSE <<>>]]
            : c \in [F \cap Labels -> MemberLists(U, n)]}
        : F \in SUBSET U}

TypeFilters == {"None", "Note", "Label"}

InitTraverse ==
    /\ notes_directory \in Directories(TraverseTags, MaxMembers)
    /\ \E category \in TraverseTags, tag_type \in TypeFilters :
           iterator = AllTagsFrom_init(category, tag_type)
    /\ last = Call("none", 0, 0, <<>>, 0, "none")
    /\ roots = <<>>
    /\ notes = {}
    /\ unique = IdleUnique
    /\ name = <<>>
    /\ classified = ""
    /\ arguments = NoArguments
    /\ result = NoResult

\* One pass of the loop of __next__.
Loop ==
    /\ iterator.status = "active"
    /\ iterator.remaining # <<>>
    /\ Len(iterator.returned) < MaxReturned
    /\ iterator' = iteration(notes_directory, iterator)
    /\ UNCHANGED <<notes_directory, last, roots, notes, unique, name, classified,
                   arguments, result>>

\* "raise StopIteration": nothing remains.
StopIteration ==
    /\ iterator.status = "active"
    /\ iterator.remaining = <<>>
    /\ iterator' = [iterator EXCEPT !.status = "stopped"]
    /\ UNCHANGED <<notes_directory, last, roots, notes, unique, name, classified,
                   arguments, result>>

NextTraverse == Loop \/ StopIteration

SpecTraverse == InitTraverse /\ [][NextTraverse]_vars

\* The caller keeps calling next() until StopIteration or an error.
SpecTraverseFair == SpecTraverse /\ WF_vars(NextTraverse)

------------------------------------------------------------------------------
(* SpecUnique: all_unique_notes(roots) over a directory that does not       *)
(* change.  unique.root counts the roots taken so far.                      *)

MaxRoots == 2

\* "notes = note" in place of "notes.add(note)"
all_unique_notes_assign(found, note) == {note}

\* notes.add(note)
all_unique_notes_add(found, note) == found \cup {note}

InitUnique ==
    /\ notes_directory \in Directories(UniqueTags, MaxMembers)
    /\ roots \in SeqsUpTo(UniqueTags, MaxRoots)
    /\ notes = {}
    /\ unique = [status |-> "running", root |-> 0]
    /\ iterator = IdleIterator
    /\ last = Call("none", 0, 0, <<>>, 0, "none")
    /\ name = <<>>
    /\ classified = ""
    /\ arguments = NoArguments
    /\ result = NoResult

\* "for root in roots": the next root and its AllTagsFrom(root, Note)
NextRoot ==
    /\ unique.status = "running"
    /\ iterator.status \in {"idle", "stopped"}
    /\ unique.root < Len(roots)
    /\ iterator' = AllTagsFrom_init(roots[unique.root + 1], "Note")
    /\ unique' = [unique EXCEPT !.root = unique.root + 1]
    /\ UNCHANGED <<notes_directory, last, roots, notes, name, classified,
                   arguments, result>>

\* "for note in AllTagsFrom(root, Note): notes.add(note)": one __next__
NextNote ==
    /\ unique.status = "running"
    /\ iterator.status = "active"
    /\ LET n == AllTagsFrom_next(notes_directory, iterator)
       IN  /\ iterator' = n
           /\ unique' = IF n.status = "raised"
                        THEN [unique EXCEPT !.status = "raised"]
                        ELSE unique
           /\ notes' = IF n.status = "active"
                       THEN all_unique_notes_add(notes, n.returned[Len(n.returned)])
                       ELSE notes
    /\ UNCHANGED <<notes_directory, last, roots, name, classified,
                   arguments, result>>

\* "return iter(notes)"
Return ==
    /\ unique.status = "running"
    /\ iterator.status \in {"idle", "stopped"}
    /\ unique.root = Len(roots)
    /\ unique' = [unique EXCEPT !.status = "returned"]
    /\ UNCHANGED <<notes_directory, last, iterator, roots, notes, name, classified,
                   arguments, result>>

NextUnique == NextRoot \/ NextNote \/ Return

SpecUnique == InitUnique /\ [][NextUnique]_vars

------------------------------------------------------------------------------
(* SpecNames: tag_of on one name.                                           *)

Alphabet == {"\n", " ", "-", ".", "0", "1", "2", "8", "T", "_", "a", "d", "o", "t", "x"}

\* The names tried: the short names over the alphabet, and the name of a
\* Note with one character replaced, or with one character added at its end.
CandidateNames ==
    LET note == NameOf[2]
    IN  UNION {[1..k -> Alphabet] : k \in 0..2}
        \cup {[note EXCEPT ![i] = c] : i \in 1..Len(note), c \in Alphabet}
        \cup {Append(note, c) : c \in Alphabet}

InitNames ==
    /\ name \in CandidateNames
    /\ classified = ""
    /\ arguments = NoArguments
    /\ result = NoResult
    /\ notes_directory = EmptyDirectory
    /\ last = Call("none", 0, 0, <<>>, 0, "none")
    /\ iterator = IdleIterator
    /\ roots = <<>>
    /\ notes = {}
    /\ unique = IdleUnique

\* tag_of(name, directory)
Classify ==
    /\ classified = ""
    /\ classified' = tag_of(name)
    /\ UNCHANGED <<notes_directory, last, iterator, roots, notes, unique, name,
                   arguments, result>>

NextNames == Classify

SpecNames == InitNames /\ [][NextNames]_vars

------------------------------------------------------------------------------
(* Timestamps.  A datetime is a record of its fields (tzinfo "None" for a   *)
(* naive one); a text is a sequence of one-character strings.               *)

Decimal == <<"0", "1", "2", "3", "4", "5", "6", "7", "8", "9">>

\* str(n) of an int n >= 0
RECURSIVE str(_)
str(n) ==
    IF n < 10 THEN <<Decimal[n + 1]>>
    ELSE str(n \div 10) \o <<Decimal[(n % 10) + 1]>>

\* left_pad(text, length, padding) of a text of at most length characters;
\* a longer text raises ValueError.
left_pad(text, length, padding) ==
    [i \in 1..(length - Len(text)) |-> padding] \o text

\* The fields that format_timestamp writes, the length each is padded to,
\* and the delimiter written after each.
TimestampFields == <<"year", "month", "day", "hour", "minute", "second">>

FieldLengths == <<4, 2, 2, 2, 2, 2>>

delimiters == <<"-", "-", "_", "-", "-">>

\* format_timestamp, from the field i on.
RECURSIVE format_from(_, _)
format_from(timestamp, i) ==
    LET field == left_pad(str(timestamp[TimestampFields[i]]),
                          FieldLengths[i], "0")
    IN  IF i = Len(TimestampFields) THEN field
        ELSE field \o <<delimiters[i]>> \o format_from(timestamp, i + 1)

\* format_timestamp: out is "returned", or "ValueError" when left_pad raises
\* for a field longer than its length.
format_timestamp(timestamp) ==
    IF \E i \in 1..Len(TimestampFields) :
           Len(str(timestamp[TimestampFields[i]])) > FieldLengths[i]
    THEN [out |-> "ValueError", text |-> <<>>]
    ELSE [out |-> "returned", text |-> format_from(timestamp, 1)]

\* str.split(delimiter, 1): the text, or the texts before and after the
\* first delimiter.
split(text, delimiter) ==
    IF delimiter \notin Range(text) THEN <<text>>
    ELSE LET i == CHOOSE j \in 1..Len(text) :
                      /\ text[j] = delimiter
                      /\ \A k \in 1..(j - 1) : text[k] # delimiter
         IN  <<SubSeq(text, 1, i - 1), SubSeq(text, i + 1, Len(text))>>

\* split_timestamp, the check after the loop: no delimiter in the last text.
split_end(parts) ==
    IF \E delimiter \in Range(delimiters) :
           delimiter \in Range(parts[Len(parts)])
    THEN [out |-> "BadTimestamp", split |-> <<>>]
    ELSE [out |-> "returned", split |-> parts]

\* split_timestamp, the loop from the delimiter i on; parts is the deque.
RECURSIVE split_loop(_, _)
split_loop(parts, i) ==
    IF i > Len(delimiters) THEN split_end(parts)
    ELSE LET rest == parts[Len(parts)]
             popped == SubSeq(parts, 1, Len(parts) - 1)
             rest_split == split(rest, delimiters[i])
         IN  IF rest_split[1] = <<>>
             THEN [out |-> "BadTimestamp", split |-> <<>>]
             ELSE IF \E outlier \in Range(delimiters) \ {delimiters[i]} :
                         outlier \in Range(rest_split[1])
             THEN [out |-> "BadTimestamp", split |-> <<>>]
             ELSE IF Len(rest_split) = 2
             THEN split_loop(popped \o rest_split, i + 1)
             ELSE split_end(Append(popped, rest_split[1]))

\* split_timestamp: the texts between the delimiters, or BadTimestamp.
split_timestamp(timestamp) == split_loop(<<timestamp>>, 1)

Whitespace == {" ", "\n"}

\* str.strip() of the whitespace at both ends.
RECURSIVE strip(_)
strip(text) ==
    IF text = <<>> THEN text
    ELSE IF Head(text) \in Whitespace THEN strip(Tail(text))
    ELSE IF text[Len(text)] \in Whitespace
    THEN strip(SubSeq(text, 1, Len(text) - 1))
    ELSE text

\* The value of a text of digits and underscores, read after "value".
RECURSIVE digits_value(_, _)
digits_value(text, value) ==
    IF text = <<>> THEN value
    ELSE IF Head(text) = "_" THEN digits_value(Tail(text), value)
    ELSE digits_value(
             Tail(text),
             10 * value + (CHOOSE k \in 0..9 : Decimal[k + 1] = Head(text)))

\* int(text): whitespace around, an optional sign, then digits, with single
\* underscores between digits allowed; anything else raises ValueError.
int(text) ==
    LET stripped == strip(text)
        signed == stripped # <<>> /\ Head(stripped) \in {"+", "-"}
        body == IF signed THEN Tail(stripped) ELSE stripped
        valid ==
            /\ body # <<>>
            /\ \A i \in 1..Len(body) : body[i] \in Digits \cup {"_"}
            /\ body[1] # "_"
            /\ body[Len(body)] # "_"
            /\ \A i \in 1..(Len(body) - 1) : ~(body[i] = "_" /\ body[i + 1] = "_")
    IN  IF ~valid THEN [out |-> "ValueError", value |-> 0]
        ELSE [out |-> "returned",
              value |-> IF signed /\ Head(stripped) = "-"
                        THEN 0 - digits_value(body, 0)
                        ELSE digits_value(body, 0)]

\* The number of days of the month in the year.
days_in_month(year, month) ==
    IF month = 2
    THEN IF (year % 4 = 0 /\ year % 100 # 0) \/ year % 400 = 0 THEN 29 ELSE 28
    ELSE IF month \in {4, 6, 9, 11} THEN 30 ELSE 31

\* datetime(*args) of up to six ints: TypeError without year, month and
\* day, ValueError for a field out of its range; the fields not given are 0
\* and the datetime is naive.
datetime(args) ==
    IF Len(args) < 3 THEN [out |-> "TypeError", timestamp |-> <<>>]
    ELSE LET at(i) == IF i <= Len(args) THEN args[i] ELSE 0
             timestamp == [year |-> at(1), month |-> at(2), day |-> at(3),
                           hour |-> at(4), minute |-> at(5), second |-> at(6),
                           microsecond |-> 0, tzinfo |-> "None"]
         IN  IF /\ timestamp.year \in 1..9999
                /\ timestamp.month \in 1..12
                /\ timestamp.day \in 1..days_in_month(timestamp.year, timestamp.month)
                /\ timestamp.hour \in 0..23
                /\ timestamp.minute \in 0..59
                /\ timestamp.second \in 0..59
             THEN [out |-> "returned", timestamp |-> timestamp]
             ELSE [out |-> "ValueError", timestamp |-> <<>>]

\* parse_timestamp: the datetime of the split texts, or BadTimestamp.
parse_timestamp(timestamp) ==
    LET parts == split_timestamp(timestamp)
    IN  IF parts.out # "returned"
        THEN [out |-> "BadTimestamp", timestamp |-> <<>>]
        ELSE LET ints == [i \in 1..Len(parts.split) |-> int(parts.split[i])]
             IN  IF \E i \in 1..Len(ints) : ints[i].out # "returned"
                 THEN [out |-> "BadTimestamp", timestamp |-> <<>>]
                 ELSE LET made == datetime([i \in 1..Len(ints) |-> ints[i].value])
                      IN  IF made.out # "returned"
                          THEN [out |-> "BadTimestamp", timestamp |-> <<>>]
                          ELSE made

\* Path(name).stem: the name without its last suffix.
stem(name_) ==
    LET dots == {i \in 2..Len(name_) : name_[i] = "."}
    IN  IF dots = {} THEN name_
        ELSE SubSeq(name_, 1, (CHOOSE i \in dots : \A j \in dots : j <= i) - 1)

\* Note.from_timestamp: the name of the Note, or BadName when the name does
\* not match Note.PATTERN.
Note_from_timestamp(timestamp) ==
    LET formatted == format_timestamp(timestamp)
        name_ == formatted.text \o <<".", "t", "x", "t">>
    IN  IF formatted.out # "returned" THEN [out |-> formatted.out, name |-> <<>>]
        ELSE IF ~Note_match(name_) THEN [out |-> "BadName", name |-> <<>>]
        ELSE [out |-> "returned", name |-> name_]

\* A Note.to_timestamp that parses the whole name, suffix included.
Note_to_timestamp_of_name(name_) == parse_timestamp(name_)

\* Note.to_timestamp
Note_to_timestamp(name_) == parse_timestamp(stem(name_))

------------------------------------------------------------------------------
(* SpecTimestamp: one datetime formatted and parsed back, as a text and as  *)
(* the name of a Note.                                                      *)

Years == {1, 999, 2018, 2020, 9999}

Months == {1, 2, 12}

Days == {1, 9, 29, 31}

Hours == {0, 9, 23}

Minutes == {0, 59}

Seconds == {0, 59}

Microseconds == {0, 1}

\* The datetimes tried: naive and aware, with and without microseconds.
Timestamps ==
    {t \in [year : Years, month : Months, day : Days, hour : Hours,
            minute : Minutes, second : Seconds, microsecond : Microseconds,
            tzinfo : {"None", "UTC"}] :
        t.day <= days_in_month(t.year, t.month)}

InitTimestamp ==
    /\ arguments \in {[op |-> "timestamp", timestamp |-> t] : t \in Timestamps}
    /\ result = NoResult
    /\ notes_directory = EmptyDirectory
    /\ last = Call("none", 0, 0, <<>>, 0, "none")
    /\ iterator = IdleIterator
    /\ roots = <<>>
    /\ notes = {}
    /\ unique = IdleUnique
    /\ name = <<>>
    /\ classified = ""

\* format_timestamp(timestamp)
FormatTimestamp ==
    LET formatted == format_timestamp(arguments.timestamp)
    IN  /\ result.op = "none"
        /\ result' = [op |-> "format_timestamp", out |-> formatted.out,
                      text |-> formatted.text]
        /\ UNCHANGED <<notes_directory, last, iterator, roots, notes, unique,
                       name, classified, arguments>>

\* parse_timestamp of the text that format_timestamp returned
ParseTimestamp ==
    LET parsed == parse_timestamp(result.text)
    IN  /\ result.op = "format_timestamp"
        /\ result.out = "returned"
        /\ result' = [op |-> "parse_timestamp", out |-> parsed.out,
                      timestamp |-> parsed.timestamp]
        /\ UNCHANGED <<notes_directory, last, iterator, roots, notes, unique,
                       name, classified, arguments>>

\* Note.from_timestamp(timestamp, directory)
FromTimestamp ==
    LET note == Note_from_timestamp(arguments.timestamp)
    IN  /\ result.op = "none"
        /\ result' = [op |-> "from_timestamp", out |-> note.out,
                      name |-> note.name]
        /\ UNCHANGED <<notes_directory, last, iterator, roots, notes, unique,
                       name, classified, arguments>>

\* to_timestamp() of the Note that from_timestamp returned
ToTimestamp ==
    LET parsed == Note_to_timestamp(result.name)
    IN  /\ result.op = "from_timestamp"
        /\ result.out = "returned"
        /\ result' = [op |-> "to_timestamp", out |-> parsed.out,
                      timestamp |-> parsed.timestamp]
        /\ UNCHANGED <<notes_directory, last, iterator, roots, notes, unique,
                       name, classified, arguments>>

NextTimestamp ==
    \/ FormatTimestamp
    \/ ParseTimestamp
    \/ FromTimestamp
    \/ ToTimestamp

SpecTimestamp == InitTimestamp /\ [][NextTimestamp]_vars

------------------------------------------------------------------------------
(* DatePattern and DateRange.  An Optional[int] is the set of its value:    *)
(* None is the empty set.  A pattern is the tuple of its six fields; the    *)
(* other side of a comparison is a record [type, pattern] or [type,         *)
(* timestamp].                                                              *)

None == {}

WILDCARD == "*"

\* DatePattern.__init__(*elements)
DatePattern_init(elements) ==
    IF Len(elements) > Len(TimestampFields)
    THEN [out |-> "BadDatePattern", pattern |-> <<>>]
    ELSE [out |-> "returned",
          pattern |-> [i \in 1..Len(TimestampFields) |->
                          IF i <= Len(elements) THEN elements[i] ELSE None]]

\* DatePattern.parse_element
parse_element(element) ==
    IF element = <<WILDCARD>> THEN [out |-> "returned", value |-> None]
    ELSE LET n == int(element)
         IN  IF n.out # "returned"
             THEN [out |-> "BadDatePattern", value |-> None]
             ELSE [out |-> "returned", value |-> {n.value}]

\* DatePattern.from_string
DatePattern_from_string(pattern) ==
    LET parts == split_timestamp(pattern)
    IN  IF parts.out # "returned"
        THEN [out |-> parts.out, pattern |-> <<>>]
        ELSE LET elements == [i \in 1..Len(parts.split) |->
                                 parse_element(parts.split[i])]
             IN  IF \E i \in 1..Len(elements) : elements[i].out # "returned"
                 THEN [out |-> "BadDatePattern", pattern |-> <<>>]
                 ELSE DatePattern_init(
                          [i \in 1..Len(elements) |-> elements[i].value])

AsPattern(pattern) == [type |-> "DatePattern", pattern |-> pattern]

AsDatetime(timestamp) == [type |-> "datetime", timestamp |-> timestamp]

\* DatePattern._compare, accessor(field) for the field i
accessor(other, i) ==
    IF other.type = "DatePattern" THEN other.pattern[i]
    ELSE {other.timestamp[TimestampFields[i]]}

\* The operation of __lt__, __le__, __gt__ and __ge__
operation(o, x, y) ==
    CASE o = "<" -> x < y
      [] o = "<=" -> x <= y
      [] o = ">" -> x > y
      [] o = ">=" -> x >= y

\* A _compare that treats None as less than every int in place of skipping
\* the field.
RECURSIVE compare_none_least(_, _, _, _)
compare_none_least(self, other, o, i) ==
    IF i > Len(self) THEN TRUE
    ELSE LET self_item == self[i]
             other_item == accessor(other, i)
         IN  IF self_item = other_item
             THEN compare_none_least(self, other, o, i + 1)
             ELSE operation(
                      o,
                      IF self_item = None THEN 0 - 1
                      ELSE CHOOSE v \in self_item : TRUE,
                      IF other_item = None THEN 0 - 1
                      ELSE CHOOSE v \in other_item : TRUE)

\* DatePattern._compare, the loop over the fields from the field i on.
RECURSIVE compare_from(_, _, _, _)
compare_from(self, other, o, i) ==
    IF i > Len(self) THEN TRUE
    ELSE LET self_item == self[i]
             other_item == accessor(other, i)
         IN  IF self_item = None \/ other_item = None \/ self_item = other_item
             THEN compare_from(self, other, o, i + 1)
             ELSE operation(o, CHOOSE v \in self_item : TRUE,
                            CHOOSE v \in other_item : TRUE)

\* DatePattern._compare(other, operation)
DatePattern_compare(self, other, o) == compare_from(self, other, o, 1)

\* A DateRange.match that tests the start of the range only.
DateRange_match_start(range_, other) ==
    DatePattern_compare(range_.start, other, "<=")

\* DateRange.match: self.start <= other <= self.end.  "other <= self.end" is
\* other.__le__ for a DatePattern, and for a datetime, whose __le__ returns
\* NotImplemented, the reflected self.end.__ge__.
DateRange_match(range_, other) ==
    /\ DatePattern_compare(range_.start, other, "<=")
    /\ IF other.type = "DatePattern"
       THEN DatePattern_compare(other.pattern, AsPattern(range_.end), "<=")
       ELSE DatePattern_compare(range_.end, other, ">=")

------------------------------------------------------------------------------
(* SpecDates: one call of DatePattern.from_string, of a comparison of a     *)
(* DatePattern, or of DateRange.match.                                      *)

\* The values tried for a field of a pattern.
Elements == {None, {1}, {2}}

\* The patterns compared: any of the first three fields and the hour may
\* be given.
Patterns ==
    {p \in [1..Len(TimestampFields) -> Elements] :
        /\ p[4] # {2}
        /\ p[5] = None
        /\ p[6] = None}

\* The patterns that bound a range.
RangePatterns == {p \in Patterns : p[3] = None}

\* The datetimes compared.
Datetimes ==
    [year : {1, 2}, month : {1, 2}, day : {1, 2}, hour : {0, 1},
     minute : {0}, second : {0}, microsecond : {0}, tzinfo : {"None"}]

Others == {AsPattern(p) : p \in Patterns} \cup {AsDatetime(t) : t \in Datetimes}

PatternAlphabet == {"1", "*", "-", "_", "x"}

MaxText == 4

\* The texts parsed: the short texts over the alphabet, and a text of six
\* elements with one character replaced, or with up to two added at its end.
PatternTexts ==
    LET full == <<"1", "-", "1", "-", "1", "_", "1", "-", "1", "-", "1">>
    IN  UNION {[1..k -> PatternAlphabet] : k \in 0..MaxText}
        \cup {[full EXCEPT ![i] = c] : i \in 1..Len(full), c \in PatternAlphabet}
        \cup {full \o <<c>> : c \in PatternAlphabet \cup {" ", "+"}}
        \cup {full \o <<c, "1">> : c \in PatternAlphabet \cup {"+"}}

\* The texts split: the texts parsed, and the beginnings of a text of six
\* elements.
SplitTexts ==
    LET full == <<"1", "-", "1", "-", "1", "_", "1", "-", "1", "-", "1">>
    IN  PatternTexts \cup {SubSeq(full, 1, k) : k \in 1..Len(full)}

InitDates ==
    /\ arguments \in
           {[op |-> "from_string", text |-> s] : s \in PatternTexts}
           \cup {[op |-> "split_timestamp", text |-> s] : s \in SplitTexts}
           \cup {[op |-> "_compare", self |-> p, other |-> other]
                     : p \in Patterns, other \in Others}
           \cup {[op |-> "match", start |-> start, end |-> end, other |-> other]
                     : start \in RangePatterns, end \in RangePatterns,
                       other \in Others}
    /\ result = NoResult
    /\ notes_directory = EmptyDirectory
    /\ last = Call("none", 0, 0, <<>>, 0, "none")
    /\ iterator = IdleIterator
    /\ roots = <<>>
    /\ notes = {}
    /\ unique = IdleUnique
    /\ name = <<>>
    /\ classified = ""

\* DatePattern.from_string(text)
FromString ==
    LET made == DatePattern_from_string(arguments.text)
    IN  /\ arguments.op = "from_string"
        /\ result.op = "none"
        /\ result' = [op |-> "from_string", out |-> made.out,
                      pattern |-> made.pattern]
        /\ UNCHANGED <<notes_directory, last, iterator, roots, notes, unique,
                       name, classified, arguments>>

\* split_timestamp(text)
SplitTimestamp ==
    /\ arguments.op = "split_timestamp"
    /\ result.op = "none"
    /\ result' = [op |-> "split_timestamp"] @@ split_timestamp(arguments.text)
    /\ UNCHANGED <<notes_directory, last, iterator, roots, notes, unique,
                   name, classified, arguments>>

\* self < other, self <= other, self > other and self >= other
Compare ==
    /\ arguments.op = "_compare"
    /\ result.op = "none"
    /\ result' = [op |-> "_compare", out |-> "returned",
                  value |-> [o \in {"<", "<=", ">", ">="} |->
                                DatePattern_compare(arguments.self,
                                                    arguments.other, o)]]
    /\ UNCHANGED <<notes_directory, last, iterator, roots, notes, unique,
                   name, classified, arguments>>

\* DateRange(start, end).match(other)
Match ==
    /\ arguments.op = "match"
    /\ result.op = "none"
    /\ result' = [op |-> "match", out |-> "returned",
                  value |-> DateRange_match(
                                [start |-> arguments.start, end |-> arguments.end],
                                arguments.other)]
    /\ UNCHANGED <<notes_directory, last, iterator, roots, notes, unique,
                   name, classified, arguments>>

NextDates ==
    \/ FromString
    \/ SplitTimestamp
    \/ Compare
    \/ Match

SpecDates == InitDates /\ [][NextDates]_vars

------------------------------------------------------------------------------
(* The query pipeline: run_filters and run_order_range.  An option that is  *)
(* not given is the empty text.  True, False and None of Python are the     *)
(* strings "True", "False" and "None".                                      *)

\* str.split(separator): the texts between the separators.
RECURSIVE split_all(_, _)
split_all(text, separator) ==
    IF separator \notin Range(text) THEN <<text>>
    ELSE LET parts == split(text, separator)
         IN  <<parts[1]>> \o split_all(parts[2], separator)

\* DateRange.from_string
DateRange_from_string(range_) ==
    LET split_ == split_all(range_, ":")
        elements == IF Len(split_) = 1 THEN split_ \o split_ ELSE split_
    IN  IF Len(elements) # 2
        THEN [out |-> "BadDateRange", start |-> <<>>, end |-> <<>>]
        ELSE LET start == DatePattern_from_string(elements[1])
                 end == DatePattern_from_string(elements[2])
             IN  IF start.out # "returned"
                 THEN [out |-> start.out, start |-> <<>>, end |-> <<>>]
                 ELSE IF end.out # "returned"
                 THEN [out |-> end.out, start |-> <<>>, end |-> <<>>]
                 ELSE [out |-> "returned", start |-> start.pattern,
                       end |-> end.pattern]

\* compile_regex, for the patterns of the model: a text of literal
\* characters and of ".", which compiles to itself, or a text with an
\* unbalanced "(", which raises BadRegex.
compile_regex(pattern) ==
    IF "(" \in Range(pattern) THEN [out |-> "BadRegex", regex |-> <<>>]
    ELSE [out |-> "returned", regex |-> pattern]

\* Pattern.search(text): the pattern matches somewhere in the text.
search(regex, text) ==
    \E start \in 0..(Len(text) - Len(regex)) :
        \A i \in 1..Len(regex) : ElementMatches(regex[i], text[start + i])

\* x.startswith(prefix)
startswith(x, prefix) ==
    /\ Len(prefix) <= Len(x)
    /\ SubSeq(x, 1, Len(prefix)) = prefix

\* Note.tag_type() and Label.tag_type()
tag_type(type_) ==
    IF type_ = "Note" THEN <<"n", "o", "t", "e">> ELSE <<"l", "a", "b", "e", "l">>

\* parse_type: the first class of TAG_TYPES whose tag_type starts with the
\* text, or BadTagType.
parse_type(type_) ==
    LET candidates == SelectSeq(TAG_TYPES,
                                LAMBDA c : startswith(tag_type(c), type_))
    IN  IF type_ # <<>> /\ candidates # <<>>
        THEN [out |-> "returned", type |-> Head(candidates)]
        ELSE [out |-> "BadTagType", type |-> "None"]

\* Note.search_text and Label.search_text; text is the lines of the file.
search_text(d, self, text, regex) ==
    IF TypeOf[self] = "Label" THEN "False"
    ELSE IF ~exists(d, self) THEN not_exists_error(self)
    ELSE IF \E i \in 1..Len(text) : search(regex, text[i]) THEN "True"
    ELSE "False"

\* run_filters, the filter time(t)
time(range_, t) ==
    IF TypeOf[t] # "Note" THEN "False"
    ELSE LET timestamp == Note_to_timestamp(NameOf[t])
         IN  IF timestamp.out # "returned" THEN timestamp.out
             ELSE IF DateRange_match(range_, AsDatetime(timestamp.timestamp))
             THEN "True" ELSE "False"

\* The filters of run_filters for the options given, in the order in which
\* they are appended; each is the outcome of the filter for the tag t.
filters(d, texts, compiled, t) ==
    (IF compiled.time THEN <<time(compiled.time_pattern, t)>> ELSE <<>>)
    \o (IF compiled.name
        THEN <<IF search(compiled.name_pattern, NameOf[t])
               THEN "True" ELSE "False">>
        ELSE <<>>)
    \o (IF compiled.search
        THEN <<search_text(d, t, texts[t], compiled.search_pattern)>>
        ELSE <<>>)
    \o (IF compiled.type
        THEN <<IF TypeOf[t] = compiled.type_class THEN "True" ELSE "False">>
        ELSE <<>>)

\* An all_filters that keeps a tag as soon as one filter is true.
all_filters_any(outcomes) ==
    IF outcomes = <<>> THEN "True"
    ELSE IF \E i \in 1..Len(outcomes) : outcomes[i] = "True" THEN "True"
    ELSE "False"

\* run_filters, all_filters(t): the filters one after the other up to the
\* first that is false or raises.
RECURSIVE all_filters(_)
all_filters(outcomes) ==
    IF outcomes = <<>> THEN "True"
    ELSE IF Head(outcomes) = "True" THEN all_filters(Tail(outcomes))
    ELSE Head(outcomes)

\* The generator (t for t in results if all_filters(t)) read to its end:
\* the tags produced and "none" or the error raised.
RECURSIVE filtered(_, _, _, _)
filtered(d, texts, compiled, results) ==
    IF results = <<>> THEN [items |-> <<>>, raised |-> "none"]
    ELSE LET keep == all_filters(filters(d, texts, compiled, Head(results)))
             rest == filtered(d, texts, compiled, Tail(results))
         IN  IF keep = "True"
             THEN [items |-> <<Head(results)>> \o rest.items,
                   raised |-> rest.raised]
             ELSE IF keep = "False" THEN rest
             ELSE [items |-> <<>>, raised |-> keep]

\* The results of run_filters when its options have parsed.
generator(filtered_) ==
    [items |-> filtered_.items, raised |-> filtered_.raised, parsed |-> TRUE]

\* run_filters after its options are parsed: the first option that is set
\* and bad raises, otherwise the filters are applied.
filter_parsed(d, texts, results, args, time_pattern, name_pattern, search_pattern, type_class) ==
    IF args.time # <<>> /\ time_pattern.out # "returned"
    THEN [items |-> <<>>, raised |-> time_pattern.out, parsed |-> FALSE]
    ELSE IF args.name # <<>> /\ name_pattern.out # "returned"
    THEN [items |-> <<>>, raised |-> name_pattern.out, parsed |-> FALSE]
    ELSE IF args.search # <<>> /\ search_pattern.out # "returned"
    THEN [items |-> <<>>, raised |-> search_pattern.out, parsed |-> FALSE]
    ELSE IF args.type # <<>> /\ type_class.out # "returned"
    THEN [items |-> <<>>, raised |-> type_class.out, parsed |-> FALSE]
    ELSE generator(filtered(
             d, texts,
             [time |-> args.time # <<>>, time_pattern |-> time_pattern,
              name |-> args.name # <<>>, name_pattern |-> name_pattern.regex,
              search |-> args.search # <<>>,
              search_pattern |-> search_pattern.regex,
              type |-> args.type # <<>>, type_class |-> type_class.type],
             results))

\* run_filters(results, args), the result read with list().  The options
\* are parsed when run_filters is called; the first that is bad raises.
run_filters(d, texts, results, args) ==
    filter_parsed(d, texts, results, args,
                  DateRange_from_string(args.time), compile_regex(args.name),
                  compile_regex(args.search), parse_type(args.type))

\* parse_order: "True" for ascending, "False" for descending, "None" for
\* none, or BadOrder.
parse_order(value) ==
    IF value = <<>> THEN "BadOrder"
    ELSE IF startswith(<<"a", "s", "c", "e", "n", "d", "i", "n", "g">>, value)
    THEN "True"
    ELSE IF startswith(<<"d", "e", "s", "c", "e", "n", "d", "i", "n", "g">>, value)
    THEN "False"
    ELSE IF startswith(<<"n", "o", "n", "e">>, value) THEN "None"
    ELSE "BadOrder"

\* parse_range: the slice, or BadRange.  An empty component is 0 for the
\* start, -1 for the end and 1 for the step; a single component n is the
\* slice n:n+1.
parse_range(text) ==
    LET components == split_all(text, ":")
        given(i) == i <= Len(components) /\ components[i] # <<>>
        bad(i) == given(i) /\ int(components[i]).out # "returned"
        start == IF given(1) THEN int(components[1]).value ELSE 0
        end == IF given(2) THEN int(components[2]).value ELSE 0 - 1
        step == IF given(3) THEN int(components[3]).value ELSE 1
    IN  IF strip(text) = <<>> \/ Len(components) > 3
        THEN [out |-> "BadRange", start |-> 0, stop |-> 0, step |-> 1]
        ELSE IF bad(1) \/ (Len(components) >= 2 /\ bad(2))
                \/ (Len(components) = 3 /\ bad(3))
        THEN [out |-> "BadRange", start |-> 0, stop |-> 0, step |-> 1]
        ELSE IF Len(components) = 1
        THEN [out |-> "returned", start |-> start, stop |-> start + 1,
              step |-> 1]
        ELSE [out |-> "returned", start |-> start, stop |-> end, step |-> step]

\* slice.indices: an index of the slice brought into the list of length n.
clamp(index, n, step) ==
    LET from_end == IF index < 0 THEN index + n ELSE index
    IN  IF step > 0
        THEN IF from_end < 0 THEN 0 ELSE IF from_end > n THEN n ELSE from_end
        ELSE IF from_end < 0 THEN 0 - 1
             ELSE IF from_end >= n THEN n - 1 ELSE from_end

\* The items of the list at index, index + step, ... before stop.
RECURSIVE items_from(_, _, _, _)
items_from(list, index, stop, step) ==
    IF (step > 0 /\ index < stop) \/ (step < 0 /\ index > stop)
    THEN <<list[index + 1]>> \o items_from(list, index + step, stop, step)
    ELSE <<>>

\* list[slice]: ValueError for the step 0.
getitem(list, slice) ==
    IF slice.step = 0 THEN [out |-> "ValueError", list |-> <<>>]
    ELSE [out |-> "returned",
          list |-> items_from(list, clamp(slice.start, Len(list), slice.step),
                              clamp(slice.stop, Len(list), slice.step),
                              slice.step)]

\* list.reverse()
reverse(list) == [i \in 1..Len(list) |-> list[Len(list) + 1 - i]]

\* The sorted list with x put after the items that are not greater than x.
RECURSIVE insort(_, _)
insort(sorted, x) ==
    IF sorted = <<>> THEN <<x>>
    ELSE IF Tag_lt(x, Head(sorted)) THEN <<x>> \o sorted
    ELSE <<Head(sorted)>> \o insort(Tail(sorted), x)

\* list.sort() of a list of tags, a stable sort by Tag.__lt__
RECURSIVE list_sort(_)
list_sort(list) ==
    IF list = <<>> THEN <<>>
    ELSE insort(list_sort(SubSeq(list, 1, Len(list) - 1)), list[Len(list)])

\* A list.sort(reverse=...) that ignores reverse.
list_sort_forward(list, reverse_) == list_sort(list)

\* list.sort(reverse=reverse_): with reverse_ the list is sorted as if each
\* comparison were reversed, equal items keeping their order.
list_sort_reverse(list, reverse_) ==
    IF reverse_ THEN reverse(list_sort(reverse(list))) ELSE list_sort(list)

\* A run_order_range that takes the range of the results first and orders
\* the slice afterwards.
run_range_order(results, args, default_sort_order) ==
    LET parsed == IF args.order # <<>> THEN parse_order(args.order)
                  ELSE default_sort_order
        result_range == parse_range(args.range)
        sliced == IF args.range = <<>> THEN [out |-> "returned", list |-> results]
                  ELSE getitem(results, result_range)
    IN  IF parsed = "BadOrder" THEN [items |-> <<>>, raised |-> "BadOrder"]
        ELSE IF args.range # <<>> /\ result_range.out # "returned"
        THEN [items |-> <<>>, raised |-> result_range.out]
        ELSE IF sliced.out # "returned"
        THEN [items |-> <<>>, raised |-> sliced.out]
        ELSE [items |-> IF parsed # "None"
                        THEN list_sort_reverse(sliced.list, parsed # "True")
                        ELSE sliced.list,
              raised |-> "none"]

\* run_order_range(results, args, default_sort_order), the result read with
\* list().
run_order_range(results, args, default_sort_order) ==
    LET parsed == IF args.order # <<>> THEN parse_order(args.order)
                  ELSE default_sort_order
        sorted == IF parsed # "None"
                  THEN list_sort_reverse(results, parsed # "True")
                  ELSE results
        result_range == parse_range(args.range)
        sliced == getitem(sorted, result_range)
    IN  IF parsed = "BadOrder" THEN [items |-> <<>>, raised |-> "BadOrder"]
        ELSE IF args.range = <<>> THEN [items |-> sorted, raised |-> "none"]
        ELSE IF result_range.out # "returned"
        THEN [items |-> <<>>, raised |-> result_range.out]
        ELSE IF sliced.out # "returned"
        THEN [items |-> <<>>, raised |-> sliced.out]
        ELSE [items |-> sliced.list, raised |-> "none"]

\* run, after run_filters: a bad option has raised when run_filters was
\* called.  Otherwise run_order_range reads the filtered results with
\* list() when there is an order or a range, after it has parsed the order
\* and before it parses the range; without order and range the filtered
\* results are read as they are printed.
run_filtered(filtered_, args, default_sort_order, order) ==
    IF ~filtered_.parsed THEN filtered_
    ELSE IF order = "BadOrder" THEN [items |-> <<>>, raised |-> "BadOrder"]
    ELSE IF order = "None" /\ args.range = <<>> THEN filtered_
    ELSE IF filtered_.raised # "none"
    THEN [items |-> <<>>, raised |-> filtered_.raised]
    ELSE run_order_range(filtered_.items, args, default_sort_order)

\* run: results = run_filters(results, args), then
\* results = run_order_range(results, args, command.default_sort_order()),
\* the result read to its end.
run(d, texts, results, args, default_sort_order) ==
    run_filtered(run_filters(d, texts, results, args), args,
                 default_sort_order,
                 IF args.order # <<>> THEN parse_order(args.order)
                 ELSE default_sort_order)

------------------------------------------------------------------------------
(* SpecQuery: one call of run_filters or of run_order_range on a sequence   *)
(* of tags.                                                                 *)

MaxFiltered == 2

MaxOrdered == 3

\* The values tried for --time: not given, a year, another year, an hour,
\* a range of two patterns, and texts that are no range and no pattern.
TimeOptions ==
    { <<>>,
      <<"2", "0", "1", "8">>,
      <<"2", "0", "1", "9">>,
      <<"*", "-", "*", "-", "*", "_", "1", "1">>,
      <<"2", "0", "1", "8", ":", "*", "-", "*", "-", "*", "_", "1", "0">>,
      <<"1", ":", "2", ":", "3">>,
      <<"x">> }

\* The values tried for --name and --search.
NameOptions == {<<>>, <<"o">>, <<"1", "1">>, <<"t", ".", "t">>, <<"(">>}

SearchOptions == {<<>>, <<"a">>, <<"(">>}

\* The values tried for --type.
TypeOptions ==
    {<<>>, <<"n">>, <<"l", "a", "b", "e", "l">>, <<"n", "o", "t", "e", "s">>}

\* The values tried for --order and --range.
OrderOptions ==
    {<<>>, <<"a">>, <<"d", "e", "s", "c">>, <<"n", "o", "n", "e">>, <<"x">>}

RangeOptions ==
    { <<>>, <<"1">>, <<"0", ":", "2">>, <<"1", ":">>, <<"-", "1">>,
      <<"2", ":", "0", ":", "-", "1">>, <<":", ":", "2">>, <<":", ":", "0">>,
      <<"x">>, <<" ">>, <<"1", ":", "2", ":", "1", ":", "1">>,
      <<"0">>, <<"3">>, <<"-", "2">>, <<"-", "4">>, <<"0", ":", "1">>,
      <<"0", ":">>, <<"-", "2", ":">>, <<"1", ":", ":", "1">>,
      <<"0", ":", "3">> }

\* The lines of the file of each Note.
NoteTexts ==
    [t \in Tags |->
        IF t = 2 THEN << <<"b">> >>
        ELSE IF t = 4 THEN << <<"b">>, <<"c", "a">> >>
        ELSE IF t = 6 THEN << <<"a">> >>
        ELSE <<>>]

InitQuery ==
    /\ arguments = NoArguments
    /\ notes_directory \in
           {[files |-> F, content |-> [t \in Tags |-> <<>>]]
                : F \in {Tags, Tags \ {4}}}
    /\ result = NoResult
    /\ last = Call("none", 0, 0, <<>>, 0, "none")
    /\ iterator = IdleIterator
    /\ roots = <<>>
    /\ notes = {}
    /\ unique = IdleUnique
    /\ name = <<>>
    /\ classified = ""

\* The outcome of a call whose result is read with list(): the items
\* produced, and "returned" or the error raised.
outcome(op, out) ==
    [op |-> op,
     out |-> IF out.raised = "none" THEN "returned" ELSE out.raised,
     items |-> out.items]

\* list(run_filters(results, args))
RunFilters ==
    /\ result.op = "none"
    /\ \E results \in SeqsUpTo(Tags, MaxFiltered), time_ \in TimeOptions,
          name_ \in NameOptions, search_ \in SearchOptions,
          type_ \in TypeOptions :
           LET args == [time |-> time_, name |-> name_, search |-> search_,
                        type |-> type_]
           IN  /\ arguments' = [op |-> "run_filters", results |-> results,
                                args |-> args]
               /\ result' = outcome("run_filters",
                                    run_filters(notes_directory, NoteTexts,
                                                results, args))
               /\ UNCHANGED <<notes_directory, last, iterator, roots, notes,
                              unique, name, classified>>

\* list(run_order_range(results, args, default_sort_order))
RunOrderRange ==
    /\ result.op = "none"
    /\ notes_directory.files = Tags
    /\ \E results \in SeqsUpTo(Tags, MaxOrdered), order \in OrderOptions,
          range_ \in RangeOptions, default \in {"None", "True", "False"} :
           LET args == [order |-> order, range |-> range_]
           IN  /\ arguments' = [op |-> "run_order_range",
                                results |-> results, args |-> args,
                                default_sort_order |-> default]
               /\ result' = outcome("run_order_range",
                                    run_order_range(results, args, default))
               /\ UNCHANGED <<notes_directory, last, iterator, roots, notes,
                              unique, name, classified>>

MaxPipeline == 3

\* The options tried for a whole run.
RunTimeOptions == {<<>>, <<"2", "0", "1", "8">>}

RunNameOptions == {<<>>, <<"o">>, <<"(">>}

RunTypeOptions == {<<>>, <<"n">>}

RunOrderOptions == {<<>>, <<"d", "e", "s", "c">>, <<"x">>}

RunRangeOptions == {<<>>, <<"0", ":", "1">>, <<"0", ":", "2">>, <<"x">>}

\* The tags of the results of a whole run: a Label, two Notes and a Note
\* whose name is no date.
RunTags == {1, 2, 4, 6}

\* run: the filters, then the order and the range, on the results of a
\* command.
Run ==
    /\ result.op = "none"
    /\ notes_directory.files = Tags
    /\ \E results \in SeqsUpTo(RunTags, MaxPipeline), time_ \in RunTimeOptions,
          name_ \in RunNameOptions, type_ \in RunTypeOptions,
          order \in RunOrderOptions, range_ \in RunRangeOptions,
          default \in {"None", "True"} :
           LET args == [time |-> time_, name |-> name_, search |-> <<>>,
                        type |-> type_, order |-> order, range |-> range_]
           IN  /\ arguments' = [op |-> "run", results |-> results,
                                args |-> args, default_sort_order |-> default]
               /\ result' = outcome("run",
                                    run(notes_directory, NoteTexts, results,
                                        args, default))
               /\ UNCHANGED <<notes_directory, last, iterator, roots, notes,
                              unique, name, classified>>

NextQuery ==
    \/ RunFilters
    \/ RunOrderRange
    \/ Run

SpecQuery == InitQuery /\ [][NextQuery]_vars

------------------------------------------------------------------------------
(* Properties of the membership store and of the commands, under Spec.      *)

Returned == {"True", "False"}

\* The step is the call self.add_member(tag) made right after the same call
\* returned.
SecondAddMember ==
    /\ last.op = "add_member"
    /\ last.out \in Returned
    /\ last'.op = "add_member"
    /\ last'.self = last.self
    /\ last'.arg = last.arg

SecondAddChangesNothing ==
    /\ last'.out = "False"
    /\ Len(notes_directory'.content[last.self])
           = Len(notes_directory.content[last.self])

\* C1, as stated: for every existing Label L and every valid tag T, whether
\* or not T's file exists, a second L.add_member(T) made right after the
\* first returns changed = false and leaves the member list the same size.
C1_SecondAddAnyTag ==
    [][SecondAddMember => SecondAddChangesNothing]_vars

\* C1, amended: for every existing Label L and every valid tag T whose file
\* exists, a second L.add_member(T) made right after the first returned
\* returns changed = false and leaves the member list the same size.
C1_SecondAddExistingTag ==
    [][SecondAddMember /\ exists(notes_directory, last.arg)
           => SecondAddChangesNothing]_vars

\* An add_member of an existing tag, already listed among several members,
\* has returned false.
C1_Witness ==
    /\ last.op = "add_member"
    /\ last.out = "False"
    /\ exists(notes_directory, last.arg)
    /\ last.arg \in Range(notes_directory.content[last.self])
    /\ Len(notes_directory.content[last.self]) >= 2

\* s lists names in strictly ascending order (so it lists none twice).
StrictlyAscending(s) ==
    \A i \in 1..(Len(s) - 1) : StrLess(NameOf[s[i]], NameOf[s[i + 1]])

\* C2: after any sequence of calls, the member file of every Label lists
\* each member name at most once, in strictly ascending order of the names.
C2_MembersAscending ==
    \A l \in Labels \cap notes_directory.files :
        StrictlyAscending(notes_directory.content[l])

\* add_member has inserted a tag between two members of a Label.
C2_Witness ==
    /\ last.op = "add_member"
    /\ last.out = "True"
    /\ Len(notes_directory.content[last.self]) = 3
    /\ notes_directory.content[last.self][2] = last.arg

\* The step is the call tag.create() on a tag of the class type_.
IsCreate(type_) ==
    /\ last'.op = "create"
    /\ TypeOf[last'.self] = type_

\* Note.create: raises NoteNotExists without a file, returns False with
\* one, and writes nothing.
NoteCreateContract ==
    IsCreate("Note") =>
        /\ notes_directory' = notes_directory
        /\ last'.out = IF exists(notes_directory, last'.self)
                       THEN "False" ELSE "NoteNotExists"

\* The step is the command Add on a Note that has no file.
IsAddOfMissingNote ==
    /\ last.op = "none"
    /\ last'.op = "Add"
    /\ TypeOf[last'.self] = "Note"
    /\ ~exists(notes_directory, last'.self)

\* C9, as stated: Note.create() never creates a file (NoteNotExists without
\* one, changed = false with one), and the Add command on a Note without a
\* file fails with NoteNotExists and leaves the directory unchanged.
C9_AddMissingNoteNotExists ==
    [][/\ NoteCreateContract
       /\ IsAddOfMissingNote =>
              /\ last'.out = "NoteNotExists"
              /\ notes_directory' = notes_directory]_vars

\* The arguments of the Add command pass its own checks: no prototype is
\* read, and every category is a Label other than the tag.
AddArgumentsValid ==
    /\ last'.prototype = 0
    /\ \A i \in 1..Len(last'.categories) :
           /\ last'.categories[i] # last'.self
           /\ TypeOf[last'.categories[i]] = "Label"

\* C9, amended: Note.create() never creates a file, and the Add command on
\* a Note without a file always fails and leaves the directory unchanged;
\* it fails with NoteNotExists when no prototype is given and every
\* category is a Label other than the tag, and otherwise with that error,
\* with UnsupportedOperation or with the not-exists error met while the
\* prototype's categories are read.
C9_AddMissingNoteFails ==
    [][/\ NoteCreateContract
       /\ IsAddOfMissingNote =>
              /\ notes_directory' = notes_directory
              /\ last'.out \in {"NoteNotExists", "LabelNotExists",
                                "UnsupportedOperation"}
              /\ AddArgumentsValid => last'.out = "NoteNotExists"]_vars

\* The Add command, given a category, has failed on a Note without a file,
\* and the category has no file either.
C9_Witness ==
    /\ last.op = "Add"
    /\ TypeOf[last.self] = "Note"
    /\ last.out = "NoteNotExists"
    /\ ~exists(notes_directory, last.self)
    /\ \E i \in 1..Len(last.categories) :
           /\ TypeOf[last.categories[i]] = "Label"
           /\ ~exists(notes_directory, last.categories[i])

\* C10: Label.create() returns true exactly when the Label had no file, and
\* then the file exists with an empty member list; with a file it returns
\* false, raises nothing and leaves the directory as it was.
C10_LabelCreate ==
    [][IsCreate("Label") =>
           IF exists(notes_directory, last'.self)
           THEN /\ last'.out = "False"
                /\ notes_directory' = notes_directory
           ELSE /\ last'.out = "True"
                /\ notes_directory'.files = notes_directory.files \cup {last'.self}
                /\ notes_directory'.content[last'.self] = <<>>
                /\ \A t \in Tags \ {last'.self} :
                       notes_directory'.content[t] = notes_directory.content[t]]_vars

\* create() has returned false on a Label that lists members.
C10_Witness ==
    /\ last.op = "create"
    /\ TypeOf[last.self] = "Label"
    /\ last.out = "False"
    /\ notes_directory.content[last.self] # <<>>

\* The step is the call op made on a tag of the class type_.
IsCallOn(op, type_) ==
    /\ last'.op = op
    /\ TypeOf[last'.self] = type_

\* C11: a Note is a leaf.  add_member and remove_member on a Note fail with
\* UnsupportedOperation and write nothing; members() of a Note with a file
\* is empty; members() and categories() of a Note without a file raise
\* NoteNotExists.
C11_NoteIsLeaf ==
    [][/\ IsCallOn("add_member", "Note") \/ IsCallOn("remove_member", "Note")
           => /\ last'.out = "UnsupportedOperation"
              /\ notes_directory' = notes_directory
       /\ IsCallOn("members", "Note")
           => IF exists(notes_directory, last'.self)
              THEN last'.out = "returned" /\ last'.items = <<>>
              ELSE last'.out = "NoteNotExists"
       /\ IsCallOn("categories", "Note") /\ ~exists(notes_directory, last'.self)
           => last'.out = "NoteNotExists"]_vars

\* add_member has failed on a Note that has a file and is listed in a
\* Label, the tag to add having a file too.
C11_Witness ==
    /\ last.op = "add_member"
    /\ TypeOf[last.self] = "Note"
    /\ last.out = "UnsupportedOperation"
    /\ exists(notes_directory, last.self)
    /\ exists(notes_directory, last.arg)
    /\ \E l \in Labels \cap notes_directory.files :
           last.self \in Range(notes_directory.content[l])

\* The step is the call L.remove_member(T) on a Label L that has its file.
IsRemoveFromExistingLabel ==
    /\ IsCallOn("remove_member", "Label")
    /\ exists(notes_directory, last'.self)

\* L.remove_member(T) has returned true exactly when T was listed in L;
\* T is no longer listed and every other member that was listed still is.
RemoveMemberContract ==
    LET before == Range(notes_directory.content[last'.self])
        after == Range(notes_directory'.content[last'.self])
    IN  /\ last'.out \in Returned
        /\ last'.out = "True" <=> last'.arg \in before
        /\ after = before \ {last'.arg}

\* C12, as stated: for an existing Label L and any tag T, L.remove_member(T)
\* returns true exactly when T was listed in L before the call; afterwards
\* T is not listed in L and every other listed member still is.
C12_RemoveMemberAnyLabel ==
    [][IsRemoveFromExistingLabel => RemoveMemberContract]_vars

\* Every member that the Label l lists has its file.
MembersExist(d, l) == Range(d.content[l]) \subseteq d.files

\* C12, amended: for an existing Label L whose listed members all have
\* their files and any tag T, L.remove_member(T) returns true exactly when
\* T was listed in L before the call; afterwards T is not listed in L and
\* every other listed member still is.  When L lists a member without a
\* file the call raises that member's not-exists error and writes nothing.
C12_RemoveMemberSoundLabel ==
    [][IsRemoveFromExistingLabel =>
           IF MembersExist(notes_directory, last'.self)
           THEN RemoveMemberContract
           ELSE /\ last'.out \in {"NoteNotExists", "LabelNotExists"}
                /\ notes_directory' = notes_directory]_vars

\* remove_member has returned true on a Label that still lists two members.
C12_Witness ==
    /\ last.op = "remove_member"
    /\ last.out = "True"
    /\ Len(notes_directory.content[last.self]) = 2
    /\ last.arg \notin Range(notes_directory.content[last.self])

NoDuplicates(s) == \A i, j \in 1..Len(s) : s[i] = s[j] => i = j

\* The step is the call list(T.categories()) on a tag T that has its file.
IsCategoriesOfExisting ==
    /\ last'.op = "categories"
    /\ exists(notes_directory, last'.self)

\* The tags that T.categories() produced are the Labels of the directory
\* that have T in their members(), each once.
CategoriesReverseMembers ==
    /\ NoDuplicates(last'.items)
    /\ Range(last'.items) \subseteq Labels \cap notes_directory.files
    /\ \A l \in Labels \cap notes_directory.files :
           l \in Range(last'.items)
               <=> is_member(notes_directory, last'.self, l) = "True"

\* C13, as stated: after any sequence of add_member and remove_member
\* calls, for every existing tag T and every Label L of the directory, L
\* is in T.categories() if and only if T is in L.members().
C13_CategoriesReverseAlways ==
    [][IsCategoriesOfExisting =>
           /\ last'.out = "returned"
           /\ CategoriesReverseMembers]_vars

\* C13, amended: after any sequence of add_member and remove_member calls
\* that leaves every listed member of every Label with its file, for every
\* existing tag T and every Label L of the directory, L is in
\* T.categories() if and only if T is listed in L.  When some Label lists a
\* member without a file, T.categories() either raises the not-exists error
\* of such a member or returns with the same equivalence.
C13_CategoriesReverseSound ==
    [][IsCategoriesOfExisting =>
           IF \A l \in Labels \cap notes_directory.files :
                  MembersExist(notes_directory, l)
           THEN /\ last'.out = "returned"
                /\ NoDuplicates(last'.items)
                /\ \A l \in Tags :
                       l \in Range(last'.items)
                           <=> /\ l \in Labels \cap notes_directory.files
                               /\ last'.self \in
                                      Range(notes_directory.content[l])
           ELSE \/ last'.out \in {"NoteNotExists", "LabelNotExists"}
                \/ /\ last'.out = "returned"
                   /\ CategoriesReverseMembers]_vars

\* categories() of a tag has returned the two Labels that list it, one of
\* them the tag itself, and not the Note of the directory.
C13_Witness ==
    /\ last.op = "categories"
    /\ last.out = "returned"
    /\ Range(last.items) = Labels \cap StoreTags
    /\ notes_directory.files = StoreTags
    /\ \A l \in Labels \cap StoreTags :
           last.self \in Range(notes_directory.content[l])

\* The step is the Remove command, without categories, on a tag that has
\* its file.
IsRemoveOfExistingTag ==
    /\ last.op = "none"
    /\ last'.op = "Remove"
    /\ last'.categories = <<>>
    /\ exists(notes_directory, last'.self)

\* The tag lists at least one member, or at least one Label of the
\* directory lists the tag.
HasMappings(d, tag) ==
    \/ TypeOf[tag] = "Label" /\ d.content[tag] # <<>>
    \/ \E l \in Labels \cap d.files : tag \in Range(d.content[l])

\* C14, as stated: the Remove command without categories deletes a tag's
\* file only when the tag has no members and belongs to no category; with
\* at least one member or category it fails with ExistingMappings and the
\* file stays in place.
C14_RemoveExistingMappings ==
    [][IsRemoveOfExistingTag =>
           /\ ~exists(notes_directory', last'.self)
                  => ~HasMappings(notes_directory, last'.self)
           /\ HasMappings(notes_directory, last'.self)
                  => /\ last'.out = "ExistingMappings"
                     /\ notes_directory' = notes_directory]_vars

\* C14, amended: the Remove command without categories deletes a tag's
\* file only when the tag has no members and belongs to no category, and
\* then deletes nothing else; with at least one member or category it
\* fails and the directory stays as it was.  The error is ExistingMappings
\* when every listed member of every Label has its file; otherwise it may
\* be the not-exists error of a listed member without a file.
C14_RemoveFailsOnMappings ==
    [][IsRemoveOfExistingTag =>
           /\ ~exists(notes_directory', last'.self)
                  => /\ ~HasMappings(notes_directory, last'.self)
                     /\ last'.out = "returned"
                     /\ notes_directory'.files
                            = notes_directory.files \ {last'.self}
                     /\ \A t \in Tags \ {last'.self} :
                            notes_directory'.content[t]
                                = notes_directory.content[t]
           /\ HasMappings(notes_directory, last'.self)
                  => /\ notes_directory' = notes_directory
                     /\ last'.out \in {"ExistingMappings", "NoteNotExists",
                                       "LabelNotExists"}
                     /\ (\A l \in Labels \cap notes_directory.files :
                             MembersExist(notes_directory, l))
                            => last'.out = "ExistingMappings"]_vars

\* The Remove command without categories has failed with ExistingMappings
\* on a Note, which lists nothing, that a Label lists; the Note is still
\* there.
C14_Witness ==
    /\ last.op = "Remove"
    /\ last.categories = <<>>
    /\ last.out = "ExistingMappings"
    /\ TypeOf[last.self] = "Note"
    /\ exists(notes_directory, last.self)
    /\ \E l \in Labels \cap notes_directory.files :
           last.self \in Range(notes_directory.content[l])

------------------------------------------------------------------------------
(* Properties of AllTagsFrom, under SpecTraverse and SpecTraverseFair.      *)

\* The tags that the files of the Labels in S list.
Listed(d, S) ==
    UNION {Range(d.content[l]) : l \in S \cap Labels \cap d.files}

\* The tags reachable from root through membership edges, root included.
RECURSIVE ReachFrom(_, _)
ReachFrom(d, S) ==
    IF Listed(d, S) \subseteq S THEN S ELSE ReachFrom(d, S \cup Listed(d, S))

Reach(d, root) == ReachFrom(d, {root})

\* Every tag of the graph has its file: the root and every listed member.
GraphComplete(d, root) ==
    /\ exists(d, root)
    /\ \A l \in Labels \cap d.files : Range(d.content[l]) \subseteq d.files

\* C3: on a membership graph in which every listed member exists, the
\* unfiltered AllTagsFrom(root) raises nothing, never returns a tag twice or
\* a tag that is not reachable from root, and by StopIteration has returned
\* every tag reachable from root, root included.
C3_ReachableOnce ==
    iterator.tag_type = "None"
        /\ GraphComplete(notes_directory, iterator.category)
    => /\ iterator.status # "raised"
       /\ NoDuplicates(iterator.returned)
       /\ Range(iterator.returned) \subseteq Reach(notes_directory, iterator.category)
       /\ iterator.status = "stopped" =>
              Range(iterator.returned) = Reach(notes_directory, iterator.category)

\* The root lies on a cycle of three Labels.
OnThreeCycle(d, root) ==
    \E a, b \in Labels \ {root} :
        /\ a # b
        /\ a \in Range(d.content[root])
        /\ b \in Range(d.content[a])
        /\ root \in Range(d.content[b])

\* The unfiltered traversal from a root on a cycle of three Labels has
\* stopped, every tag of the directory being reachable.
C3_Witness ==
    /\ iterator.status = "stopped"
    /\ iterator.tag_type = "None"
    /\ GraphComplete(notes_directory, iterator.category)
    /\ OnThreeCycle(notes_directory, iterator.category)
    /\ Reach(notes_directory, iterator.category) = TraverseTags

Ended == iterator.status \in {"stopped", "raised"}

\* C4: on every membership graph, cycles included, next() called again and
\* again reaches StopIteration, with nothing remaining, or an error; no
\* pass of the loop is cut short by the bound on the returned tags.
C4_Terminates ==
    /\ <>Ended
    /\ [](iterator.status = "stopped" => iterator.remaining = <<>>)
    /\ [](iterator.status = "active" /\ iterator.remaining # <<>>
              => Len(iterator.returned) < MaxReturned)

\* A traversal from a root that lists itself, on a cycle of three Labels,
\* has stopped with nothing remaining.
C4_Witness ==
    /\ iterator.status = "stopped"
    /\ iterator.remaining = <<>>
    /\ iterator.category \in Range(notes_directory.content[iterator.category])
    /\ OnThreeCycle(notes_directory, iterator.category)

\* The tags of s that are of the class type_, in the order of s.
OfType(s, type_) == SelectSeq(s, LAMBDA t : TypeOf[t] = type_)

\* C5: a traversal filtered to a type X ends as the unfiltered traversal of
\* the same root ends (StopIteration or the same error), has explored the
\* same tags, and has returned exactly the tags of type X that the
\* unfiltered traversal returns, in the same order.
C5_FilterOnlySurfaces ==
    Ended /\ iterator.tag_type # "None" =>
        LET unfiltered == list_AllTagsFrom(
                              notes_directory,
                              AllTagsFrom_init(iterator.category, "None"))
        IN  /\ iterator.returned = OfType(unfiltered.returned, iterator.tag_type)
            /\ iterator.visited = unfiltered.visited
            /\ iterator.status = unfiltered.status
            /\ iterator.raised = unfiltered.raised
            /\ iterator.tag = unfiltered.tag

\* A traversal filtered to Notes has stopped after returning a Note that
\* the root does not list itself: the Note is under a chain of two Labels.
C5_Witness ==
    /\ iterator.status = "stopped"
    /\ iterator.tag_type = "Note"
    /\ iterator.returned # <<>>
    /\ \E a, b \in Labels \ {iterator.category} :
           /\ a # b
           /\ Range(notes_directory.content[iterator.category]) = {a}
           /\ Range(notes_directory.content[a]) = {b}
           /\ iterator.returned[1] \in Range(notes_directory.content[b])

\* The members without a file that the Labels reachable from root list.
Dangling(d, root) == Listed(d, Reach(d, root)) \ d.files

\* C7: when a Label reachable from the root lists a member without a file,
\* the enumeration, filtered or not, does not reach StopIteration: it ends
\* with the NoteNotExists or LabelNotExists error of such a member.
C7_MissingMemberRaises ==
    /\ [](Dangling(notes_directory, iterator.category) # {}
              => iterator.status # "stopped")
    /\ [](iterator.status = "raised" =>
              /\ ~exists(notes_directory, iterator.tag)
              /\ iterator.raised = not_exists_error(iterator.tag)
              /\ iterator.tag \in
                     Dangling(notes_directory, iterator.category)
                         \cup {iterator.category})
    /\ (Dangling(notes_directory, iterator.category) # {}
            => <>(/\ iterator.status = "raised"
                  /\ iterator.tag \in Dangling(notes_directory, iterator.category)))

\* A traversal filtered to Notes has raised the error of a missing member
\* that a Label under the root lists, after returning a Note.
C7_Witness ==
    /\ iterator.status = "raised"
    /\ iterator.tag_type = "Note"
    /\ iterator.returned # <<>>
    /\ iterator.tag \notin Range(notes_directory.content[iterator.category])
    /\ iterator.tag \in Dangling(notes_directory, iterator.category)

------------------------------------------------------------------------------
(* Properties of all_unique_notes, under SpecUnique.                        *)

\* C6: all_unique_notes(roots), when it returns, returns the set of the
\* Notes reachable from the roots: the union over the roots, each Note in
\* it once however many roots reach it or however often a root is repeated.
C6_UnionOfNotes ==
    unique.status = "returned" =>
        notes = UNION {Reach(notes_directory, roots[i]) \cap Notes
                           : i \in 1..Len(roots)}

\* all_unique_notes has returned two Notes for two different roots that
\* both reach one of them.
C6_Witness ==
    /\ unique.status = "returned"
    /\ Len(roots) = 2
    /\ roots[1] # roots[2]
    /\ Cardinality(notes) = 2
    /\ Reach(notes_directory, roots[1]) \cap Reach(notes_directory, roots[2])
           \cap Notes # {}

------------------------------------------------------------------------------
(* Properties of tag_of, under SpecNames.                                   *)

\* TAG_TYPES in the other order
Reversed(s) == [i \in 1..Len(s) |-> s[Len(s) + 1 - i]]

\* C8: no name matches both the Note pattern and the Label pattern, so
\* tag_of gives the same class with the variants tried in the other order,
\* and a name that matches neither raises BadName.
C8_NameDeterminesType ==
    classified # "" =>
        /\ ~(Note_match(name) /\ Label_match(name))
        /\ classified = tag_of_in(Reversed(TAG_TYPES), name)
        /\ ~Note_match(name) /\ ~Label_match(name) => classified = "BadName"

------------------------------------------------------------------------------
(* Properties of the timestamp functions, under SpecTimestamp.              *)

\* The call that ends a round trip has been made.
RoundTripEnded == result.op \in {"parse_timestamp", "to_timestamp"}

\* The datetime with its microseconds and its time zone dropped.
WholeSeconds(t) == [t EXCEPT !.microsecond = 0, !.tzinfo = "None"]

\* C15, as stated: for every valid datetime t, with a year from 1 to 9999,
\* parse_timestamp(format_timestamp(t)) = t and
\* Note.from_timestamp(t, d).to_timestamp() = t.
C15_RoundTripAnyTimestamp ==
    /\ result.op \in {"format_timestamp", "from_timestamp"}
           => result.out = "returned"
    /\ RoundTripEnded =>
           /\ result.out = "returned"
           /\ result.timestamp = arguments.timestamp

\* C15, amended: for every naive datetime t of whole seconds, with a year
\* from 1 to 9999, parse_timestamp(format_timestamp(t)) = t and
\* Note.from_timestamp(t, d).to_timestamp() = t; for any other datetime
\* the round trip gives t without its microseconds and its time zone.
C15_RoundTripWholeSeconds ==
    /\ result.op \in {"format_timestamp", "from_timestamp"}
           => result.out = "returned"
    /\ RoundTripEnded =>
           /\ result.out = "returned"
           /\ result.timestamp = WholeSeconds(arguments.timestamp)
           /\ arguments.timestamp.microsecond = 0
                  /\ arguments.timestamp.tzinfo = "None"
              => result.timestamp = arguments.timestamp

\* to_timestamp() has given back a naive datetime of whole seconds whose
\* year, month and hour each needed padding.
C15_Witness ==
    /\ result.op = "to_timestamp"
    /\ result.out = "returned"
    /\ arguments.timestamp.microsecond = 0
    /\ arguments.timestamp.tzinfo = "None"
    /\ arguments.timestamp.year = 999
    /\ arguments.timestamp.month = 2
    /\ arguments.timestamp.hour = 9
    /\ result.timestamp = arguments.timestamp

------------------------------------------------------------------------------
(* Properties of DatePattern and DateRange, under SpecDates.                *)

\* The fields of a pattern or of a datetime, as Optional[int] values.
FieldsOf(other) == [i \in 1..Len(TimestampFields) |-> accessor(other, i)]

\* The fields where both sides are concrete and unequal.
Deciding(p, o) ==
    {i \in 1..Len(TimestampFields) : p[i] # None /\ o[i] # None /\ p[i] # o[i]}

\* The value of a concrete field.
ValueOf(item) == CHOOSE v \in item : TRUE

\* C16: comparing a DatePattern p with a pattern or datetime o, the first
\* field, in the order year, month, day, hour, minute, second, where both
\* sides are concrete and unequal decides each of <, <=, > and >= by the
\* comparison of the two ints; without such a field p <= o and p >= o both
\* hold, and p < o and p > o hold as well.
C16_FirstConcreteUnequalDecides ==
    result.op = "_compare" =>
        LET p == arguments.self
            o == FieldsOf(arguments.other)
            deciding == Deciding(p, o)
        IN  IF deciding = {}
            THEN \A op \in {"<", "<=", ">", ">="} : result.value[op]
            ELSE LET first == CHOOSE i \in deciding : \A j \in deciding : i <= j
                     x == ValueOf(p[first])
                     y == ValueOf(o[first])
                 IN  /\ result.value["<"] <=> x < y
                     /\ result.value["<="] <=> x <= y
                     /\ result.value[">"] <=> x > y
                     /\ result.value[">="] <=> x >= y

\* A pattern whose year is a wildcard is greater than a datetime of a
\* smaller month although its day is smaller: the month decides, not the
\* year and not the day.
C16_Witness ==
    /\ result.op = "_compare"
    /\ arguments.other.type = "datetime"
    /\ arguments.self[1] = None
    /\ arguments.self[2] = {2}
    /\ arguments.other.timestamp.month = 1
    /\ arguments.self[3] = {1}
    /\ arguments.other.timestamp.day = 2
    /\ result.value[">"]
    /\ ~result.value["<="]

\* p <= o under the comparator of DatePattern: no field where both sides
\* are concrete and unequal, or the first of them smaller in p.
LessOrEqual(p, o) ==
    LET deciding == Deciding(p, o)
    IN  \/ deciding = {}
        \/ LET first == CHOOSE i \in deciding : \A j \in deciding : i <= j
           IN  ValueOf(p[first]) < ValueOf(o[first])

\* C17: DateRange.match(c) is true exactly when start <= c and c <= end
\* under the comparator of DatePattern, for c a datetime or a pattern; a
\* range of a single pattern p, start = end = p, matches c exactly when
\* every field that is concrete in both p and c has the same value.
C17_MatchIsBetween ==
    result.op = "match" =>
        LET c == FieldsOf(arguments.other)
        IN  /\ result.value <=> /\ LessOrEqual(arguments.start, c)
                                /\ LessOrEqual(c, arguments.end)
            /\ arguments.start = arguments.end
                   => (result.value <=> Deciding(arguments.start, c) = {})

\* A range from the year 1 to any date with the hour 1 matches a datetime
\* of the year 2 at the hour 1: above the start by its year, not above the
\* end, whose only concrete field is equal.
C17_Witness ==
    /\ result.op = "match"
    /\ result.value
    /\ arguments.other.type = "datetime"
    /\ arguments.start = <<{1}, None, None, None, None, None>>
    /\ arguments.end = <<None, None, None, {1}, None, None>>
    /\ arguments.other.timestamp.year = 2
    /\ arguments.other.timestamp.hour = 1

\* The texts between the delimiter characters of a text.
RECURSIVE Components(_)
Components(text) ==
    LET at == {i \in 1..Len(text) : text[i] \in Range(delimiters)}
    IN  IF at = {} THEN <<text>>
        ELSE LET i == CHOOSE j \in at : \A k \in at : j <= k
             IN  <<SubSeq(text, 1, i - 1)>>
                     \o Components(SubSeq(text, i + 1, Len(text)))

\* A well-formed pattern text: at most six components, separated by the
\* delimiters of a timestamp in their order, each the wildcard or an
\* integer.
WellFormed(text) ==
    LET separators == SelectSeq(text, LAMBDA c : c \in Range(delimiters))
    IN  /\ Len(separators) <= Len(delimiters)
        /\ separators = SubSeq(delimiters, 1, Len(separators))
        /\ \A i \in 1..Len(Components(text)) :
               \/ Components(text)[i] = <<WILDCARD>>
               \/ int(Components(text)[i]).out = "returned"

\* C18: DatePattern.from_string fails with BadDatePattern for every
\* malformed pattern text: a component that is neither the wildcard nor an
\* integer, more than six components, an empty component, or a delimiter
\* of the wrong kind inside a component.
C18_MalformedIsBadDatePattern ==
    result.op = "from_string" /\ ~WellFormed(arguments.text)
        => result.out = "BadDatePattern"

------------------------------------------------------------------------------
(* Properties of run_filters and run_order_range, under SpecQuery.          *)

\* The outcomes, for the tag t, of the predicates whose option is set, each
\* computed on its own: "True", "False" or the error it raises.
Predicates(t) ==
    LET args == arguments.args
    IN  (IF args.time = <<>> THEN {}
         ELSE {time(DateRange_from_string(args.time), t)})
        \cup (IF args.name = <<>> THEN {}
              ELSE {IF search(compile_regex(args.name).regex, NameOf[t])
                    THEN "True" ELSE "False"})
        \cup (IF args.search = <<>> THEN {}
              ELSE {search_text(notes_directory, t, NoteTexts[t],
                                compile_regex(args.search).regex)})
        \cup (IF args.type = <<>> THEN {}
              ELSE {IF TypeOf[t] = parse_type(args.type).type
                    THEN "True" ELSE "False"})

\* Every option that is set has a value that parses.
OptionsParse ==
    LET args == arguments.args
    IN  /\ args.time # <<>> => DateRange_from_string(args.time).out = "returned"
        /\ args.name # <<>> => compile_regex(args.name).out = "returned"
        /\ args.search # <<>> => compile_regex(args.search).out = "returned"
        /\ args.type # <<>> => parse_type(args.type).out = "returned"

EffectiveOrder ==
    IF arguments.args.order # <<>> THEN parse_order(arguments.args.order)
    ELSE arguments.default_sort_order

\* s is in ascending, or in descending, order of the names.
Ascending(s) == \A i, j \in 1..Len(s) : i < j => ~Tag_lt(s[j], s[i])

Descending(s) == \A i, j \in 1..Len(s) : i < j => ~Tag_lt(s[i], s[j])

\* s and t list the same tags the same number of times.
SameItems(s, t) ==
    \A x \in Tags :
        Cardinality({i \in 1..Len(s) : s[i] = x})
            = Cardinality({i \in 1..Len(t) : t[i] = x})

\* C20, as stated: the order in effect is the explicit order when one is
\* given and the default otherwise, an explicit none overriding a default;
\* with ascending the output is sorted by name, with descending it is the
\* reverse, and with no order in effect and no range the output is the
\* input in its order.
C20_OutputInEffectiveOrder ==
    result.op = "run_order_range" /\ result.out = "returned" =>
        /\ EffectiveOrder = "True" => Ascending(result.items)
        /\ EffectiveOrder = "False" => Descending(result.items)
        /\ arguments.args.range = <<>> =>
               SameItems(result.items, arguments.results)
        /\ EffectiveOrder = "None" /\ arguments.args.range = <<>> =>
               result.items = arguments.results

\* C20, amended: the order in effect is the explicit order when one is
\* given and the default otherwise, an explicit none overriding a default.
\* Without a range, with ascending the output is the input sorted by name,
\* with descending it is the reverse of that, and with no order in effect
\* it is the input in its order.  With a range the output is the slice of
\* that list, which is in the order in effect when the step of the range
\* is positive.
C20_OrderThenRange ==
    result.op = "run_order_range" =>
        LET ascending == list_sort(arguments.results)
            ordered == IF EffectiveOrder = "True" THEN ascending
                       ELSE IF EffectiveOrder = "False" THEN reverse(ascending)
                       ELSE arguments.results
            slice == parse_range(arguments.args.range)
        IN  /\ SameItems(ascending, arguments.results) /\ Ascending(ascending)
            /\ result.out = "BadOrder" <=> EffectiveOrder = "BadOrder"
            /\ result.out = "returned" =>
                   IF arguments.args.range = <<>>
                   THEN result.items = ordered
                   ELSE /\ result.items = getitem(ordered, slice).list
                        /\ slice.step > 0 /\ EffectiveOrder = "True"
                               => Ascending(result.items)
                        /\ slice.step > 0 /\ EffectiveOrder = "False"
                               => Descending(result.items)

\* An explicit descending order has overridden an ascending default: three
\* different tags, given neither in ascending nor in descending order, have
\* come out in descending order.
C20_Witness ==
    /\ result.op = "run_order_range"
    /\ result.out = "returned"
    /\ arguments.args.order # <<>>
    /\ EffectiveOrder = "False"
    /\ arguments.default_sort_order = "True"
    /\ arguments.args.range = <<>>
    /\ Len(arguments.results) = 3
    /\ NoDuplicates(arguments.results)
    /\ result.items # arguments.results
    /\ result.items # reverse(arguments.results)
    /\ Descending(result.items)

\* The input in the order in effect: sorted by name when it is ascending,
\* the reverse of that when it is descending, as given when there is none.
OrderedInput ==
    IF EffectiveOrder = "True" THEN list_sort(arguments.results)
    ELSE IF EffectiveOrder = "False"
    THEN reverse(list_sort(arguments.results))
    ELSE arguments.results

\* The components of a range text.
RangeComponents == split_all(arguments.args.range, ":")

\* The range text is "S:", "S::" or "S::1" for an integer S.
OmittedStop ==
    /\ Len(RangeComponents) \in {2, 3}
    /\ int(RangeComponents[1]).out = "returned"
    /\ RangeComponents[2] = <<>>
    /\ Len(RangeComponents) = 3 => RangeComponents[3] \in {<<>>, <<"1">>}

\* The items of the list from the index on, to its end, an index below
\* zero counting from the end.
FromIndex(list, index) ==
    LET n == Len(list)
        first == IF index < 0 THEN (IF n + index < 0 THEN 0 ELSE n + index)
                 ELSE IF index > n THEN n ELSE index
    IN  SubSeq(list, first + 1, n)

\* C21: a range text whose stop is omitted ("S:", or "S::step" with the
\* step 1) is open-ended: run_order_range returns every element from the
\* index S to the end of the sequence, the last element included.
C21_OmittedStopIsOpenEnded ==
    result.op = "run_order_range" /\ EffectiveOrder # "BadOrder"
            /\ OmittedStop
        => /\ result.out = "returned"
           /\ result.items
                  = FromIndex(OrderedInput, int(RangeComponents[1]).value)

\* The range text is a single integer.
SingleIndex ==
    /\ Len(RangeComponents) = 1
    /\ int(RangeComponents[1]).out = "returned"

\* list[index] as a list of one item, an index below zero counting from the
\* end; the empty list for an index outside the list.
ItemAt(list, index) ==
    LET n == Len(list)
    IN  IF 0 <= index /\ index < n THEN <<list[index + 1]>>
        ELSE IF 0 - n <= index /\ index < 0 THEN <<list[n + index + 1]>>
        ELSE <<>>

\* C22: a range text that is a single integer N selects the window
\* [N, N+1): run_order_range returns exactly the one element at index N
\* for every N with -len <= N < len, a negative N counting from the end,
\* and the empty sequence for an N outside that interval.
C22_SingleIndexSelectsOne ==
    result.op = "run_order_range" /\ EffectiveOrder # "BadOrder"
            /\ SingleIndex
        => /\ result.out = "returned"
           /\ result.items
                  = ItemAt(OrderedInput, int(RangeComponents[1]).value)

\* The tags of the input that satisfy every predicate whose option is set,
\* in the order of the input.
Kept ==
    SelectSeq(arguments.results, LAMBDA t : Predicates(t) \subseteq {"True"})

\* The list in the order in effect.
OrderedBy(list) ==
    IF EffectiveOrder = "True" THEN list_sort(list)
    ELSE IF EffectiveOrder = "False" THEN reverse(list_sort(list))
    ELSE list

\* The first k items of the list, or the list when it is shorter.
First(list, k) == SubSeq(list, 1, IF k < Len(list) THEN k ELSE Len(list))

\* C23: the stages of run are applied in the order filter, order, range:
\* the range indexes positions of the already filtered and already sorted
\* sequence.  With the range "0:1" and the order descending the result is
\* the one greatest tag among those that pass the filters.
C23_FilterOrderRange ==
    result.op = "run" /\ result.out = "returned" =>
        /\ arguments.args.range = <<>> => result.items = OrderedBy(Kept)
        /\ arguments.args.range = <<"0", ":", "1">>
               => result.items = First(OrderedBy(Kept), 1)
        /\ arguments.args.range = <<"0", ":", "2">>
               => result.items = First(OrderedBy(Kept), 2)
        /\ arguments.args.range = <<"0", ":", "1">> /\ EffectiveOrder = "False"
                   /\ Kept # <<>>
               => /\ Len(result.items) = 1
                  /\ \E i \in 1..Len(Kept) : Kept[i] = result.items[1]
                  /\ \A i \in 1..Len(Kept) : ~Tag_lt(result.items[1], Kept[i])

\* run on three different tags [X, Y, Z] given in ascending order of their
\* names, all of which pass the filters, with the order descending and the
\* range "0:1", has returned [Z].
C23_Witness ==
    /\ result.op = "run"
    /\ result.out = "returned"
    /\ Len(arguments.results) = 3
    /\ Tag_lt(arguments.results[1], arguments.results[2])
    /\ Tag_lt(arguments.results[2], arguments.results[3])
    /\ Kept = arguments.results
    /\ arguments.args.order = <<"d", "e", "s", "c">>
    /\ arguments.args.range = <<"0", ":", "1">>
    /\ result.items = <<arguments.results[3]>>

------------------------------------------------------------------------------
(* Properties of the commands, under Spec.                                  *)

\* The step is the command Add, without prototype, with categories that
\* are Labels other than the tag, one of which has no file.
IsAddToMissingCategory ==
    /\ last.op = "none"
    /\ last'.op = "Add"
    /\ AddArgumentsValid
    /\ \E i \in 1..Len(last'.categories) :
           ~exists(notes_directory, last'.categories[i])

\* The step is Label.add_member on a Label that has no file.
IsAddMemberToMissingLabel ==
    /\ last'.op = "add_member"
    /\ TypeOf[last'.self] = "Label"
    /\ ~exists(notes_directory, last'.self)

\* C24, as stated: adding the tag T to a category C whose Label file does
\* not exist fails with LabelNotExists, and no file for T is created.
C24_AddToMissingCategoryFails ==
    [][IsAddToMissingCategory =>
           /\ last'.out = "LabelNotExists"
           /\ exists(notes_directory', last'.self)
                  <=> exists(notes_directory, last'.self)]_vars

\* C24, amended: Label.add_member on a Label without a file fails with
\* LabelNotExists and changes nothing.  The Add command creates the missing
\* categories instead: for a Note without a file it fails with
\* NoteNotExists and changes nothing; otherwise the tag and every category
\* have a file afterwards, and when the listed members of the categories
\* that existed all have files, the command returns, the tag is a member
\* of every category, and the tags returned are those that had no file.
C24_AddCreatesMissingCategory ==
    [][/\ IsAddMemberToMissingLabel =>
              /\ last'.out = "LabelNotExists"
              /\ notes_directory' = notes_directory
       /\ IsAddToMissingCategory /\ IsAddOfMissingNote =>
              /\ last'.out = "NoteNotExists"
              /\ notes_directory' = notes_directory
       /\ IsAddToMissingCategory /\ ~IsAddOfMissingNote =>
              /\ exists(notes_directory', last'.self)
              /\ \A i \in 1..Len(last'.categories) :
                     exists(notes_directory', last'.categories[i])
              /\ (\A i \in 1..Len(last'.categories) :
                      MembersExist(notes_directory, last'.categories[i]))
                     => /\ last'.out = "returned"
                        /\ \A i \in 1..Len(last'.categories) :
                               last'.self \in Range(
                                   notes_directory'.content[last'.categories[i]])
                        /\ Range(last'.items)
                               = ({last'.self} \cup Range(last'.categories))
                                     \ notes_directory.files]_vars

\* The Add command has returned after creating both the tag and its
\* category, which lists the tag as its only member.
C24_Witness ==
    /\ last.op = "Add"
    /\ last.out = "returned"
    /\ last.prototype = 0
    /\ Len(last.categories) = 1
    /\ last.items = <<last.self, last.categories[1]>>
    /\ notes_directory.content[last.categories[1]] = <<last.self>>
    /\ {last.self, last.categories[1]} \subseteq notes_directory.files

\* The Label l lists itself as a direct member in the directory d.
ListsItself(d, l) == TypeOf[l] = "Label" /\ l \in Range(d.content[l])

\* C25: the Add command never makes a tag a category of itself.  When the
\* tag is among the categories named, Add fails with UnsupportedOperation
\* and writes nothing; and whatever the categories named and copied from
\* the prototype, no Label lists itself as a direct member after an Add
\* unless it did before.
C25_AddNeverSelfCategory ==
    [][last.op = "none" /\ last'.op = "Add" =>
           /\ last'.prototype = 0
                  /\ (\E i \in 1..Len(last'.categories) :
                          last'.categories[i] = last'.self)
                  => /\ last'.out = "UnsupportedOperation"
                     /\ notes_directory' = notes_directory
           /\ \A l \in StoreTags :
                  ListsItself(notes_directory', l)
                      => ListsItself(notes_directory, l)]_vars

------------------------------------------------------------------------------
(* The order of AllTagsFrom, under SpecTraverse.                            *)

\* The tags within k membership hops of root.
RECURSIVE Within(_, _, _)
Within(d, root, k) ==
    IF k = 0 THEN {root}
    ELSE Within(d, root, k - 1) \cup Listed(d, Within(d, root, k - 1))

\* The least number of membership hops from root to a tag reachable from
\* it.
Distance(d, root, t) ==
    CHOOSE k \in 0..Cardinality(Tags) :
        /\ t \in Within(d, root, k)
        /\ k > 0 => t \notin Within(d, root, k - 1)

\* C26: the traversal is breadth-first: the unfiltered AllTagsFrom(root)
\* returns the tags in non-decreasing order of their shortest
\* membership-hop distance from root, also when a tag is offered for
\* enqueueing several times while it is pending.
C26_BreadthFirst ==
    iterator.tag_type = "None" =>
        \A i, j \in 1..Len(iterator.returned) :
            i < j =>
                Distance(notes_directory, iterator.category,
                         iterator.returned[i])
                    <= Distance(notes_directory, iterator.category,
                                iterator.returned[j])

\* The unfiltered traversal has stopped after returning a tag at distance
\* two that two different Labels at distance one list, the second of which
\* offered it while it was pending.
C26_Witness ==
    /\ iterator.tag_type = "None"
    /\ iterator.status = "stopped"
    /\ Len(iterator.returned) = 4
    /\ Distance(notes_directory, iterator.category, iterator.returned[2]) = 1
    /\ Distance(notes_directory, iterator.category, iterator.returned[3]) = 1
    /\ Distance(notes_directory, iterator.category, iterator.returned[4]) = 2
    /\ iterator.returned[4]
           \in Range(notes_directory.content[iterator.returned[2]])
    /\ iterator.returned[4]
           \in Range(notes_directory.content[iterator.returned[3]])

------------------------------------------------------------------------------
(* SpecCommands: the notes directory under runs of the commands add, remove *)
(* and import only, from the empty directory.                               *)

NextCommands ==
    \/ \E scan \in Orders(notes_directory.files) :
          \E tag \in StoreTags, cats \in SeqsUpTo(StoreTags, MaxCategories),
             prototype \in StoreTags \cup {0} : Add(tag, cats, prototype, scan)
    \/ \E scan \in Orders(notes_directory.files) :
          \E tag \in StoreTags, cats \in SeqsUpTo(StoreTags, MaxCategories) :
             Remove(tag, cats, scan)
    \/ \E paths \in SeqsUpTo((Notes \cap StoreTags) \cup {0}, MaxImport) \ {<<>>} :
          Import(paths)
    \/ Exit

SpecCommands == Init /\ [][NextCommands]_vars

\* C27: referential integrity is an invariant of the commands: in every
\* directory reachable from the empty one by Import, Add and Remove
\* commands, those that fail part way included, every name that the file
\* of a Label lists is the name of a tag whose file exists.
C27_ReferentialIntegrity ==
    \A l \in Labels \cap notes_directory.files :
        Range(notes_directory.content[l]) \subseteq notes_directory.files

\* The command remove, without categories, has refused to remove a tag
\* that has a file and is listed by a Label.
C27_Witness ==
    /\ last.op = "Remove"
    /\ last.categories = <<>>
    /\ last.out = "ExistingMappings"
    /\ last.self \in notes_directory.files
    /\ \E l \in Labels \cap notes_directory.files :
           last.self \in Range(notes_directory.content[l])

------------------------------------------------------------------------------
(* The frame of Label.add_member and Label.remove_member, under Spec.       *)

\* The step is Label.add_member or Label.remove_member.
IsLabelMemberCall ==
    /\ last'.op \in {"add_member", "remove_member"}
    /\ TypeOf[last'.self] = "Label"

\* C28: Label.add_member and Label.remove_member change the file of the
\* Label only when they return normally: they raise exactly when the Label
\* has no file or one of its listed members has none, and then the file of
\* the Label is what it was before the call and no other file is touched.
\* When they return, no file but that of the Label is touched.
C28_RaisingCallWritesNothing ==
    [][IsLabelMemberCall =>
           /\ last'.out \notin {"True", "False"}
                  <=> \/ ~exists(notes_directory, last'.self)
                      \/ ~MembersExist(notes_directory, last'.self)
           /\ last'.out \notin {"True", "False"}
                  => /\ notes_directory' = notes_directory
                     /\ last'.out \in {"LabelNotExists", "NoteNotExists"}
           /\ notes_directory'.files = notes_directory.files
           /\ \A t \in Tags \ {last'.self} :
                  notes_directory'.content[t] = notes_directory.content[t]]_vars

\* Label.add_member has raised on a Label that has a file and lists, after
\* a member with a file, a member without one.
C28_Witness ==
    /\ last.op = "add_member"
    /\ TypeOf[last.self] = "Label"
    /\ last.self \in notes_directory.files
    /\ last.out \in {"LabelNotExists", "NoteNotExists"}
    /\ Len(notes_directory.content[last.self]) = 2
    /\ notes_directory.content[last.self][1] \in notes_directory.files
    /\ notes_directory.content[last.self][2] \notin notes_directory.files

------------------------------------------------------------------------------
(* Properties of split_timestamp, under SpecDates.                          *)

\* The components joined with the delimiters of a timestamp, from the
\* component i on.
RECURSIVE JoinFrom(_, _)
JoinFrom(parts, i) ==
    IF i = Len(parts) THEN parts[i]
    ELSE parts[i] \o <<delimiters[i]>> \o JoinFrom(parts, i + 1)

\* C29: whenever split_timestamp returns, its result has between one and
\* six components, every component is non-empty and contains neither "-"
\* nor "_", and the components joined with the delimiters "-", "-", "_",
\* "-", "-", in that order, are the input text.
C29_SplitComponents ==
    result.op = "split_timestamp" /\ result.out = "returned" =>
        /\ Len(result.split) \in 1..6
        /\ \A i \in 1..Len(result.split) :
               /\ result.split[i] # <<>>
               /\ "-" \notin Range(result.split[i])
               /\ "_" \notin Range(result.split[i])
        /\ JoinFrom(result.split, 1) = arguments.text

------------------------------------------------------------------------------
(* The failures of the range, under SpecQuery.                              *)

\* C30: range handling is total with respect to the kinds of error: for
\* every range text and every sequence of tags, run_order_range returns a
\* sequence or fails with BadRange; no other failure escapes.
C30_RangeFailsOnlyWithBadRange ==
    result.op = "run_order_range" /\ EffectiveOrder # "BadOrder"
            /\ arguments.args.range # <<>>
        => result.out \in {"returned", "BadRange"}

====
